---- MODULE Spec2Model ----
(***************************************************************************)
(* Menu Builder: the in-memory entity graph of the point-of-sale menu      *)
(* editor (MenuBuilder in src/src/main.rs) as a state machine.             *)
(*                                                                         *)
(* Ten ID-keyed collections (BTreeMap<EntityId, T>), the draft slots and   *)
(* per-row edit-state lists, the pending deletion and its modal.  One      *)
(* action per message/operation handled by MenuBuilder::update and         *)
(* MenuBuilder::perform.                                                   *)
(*                                                                         *)
(* Representation                                                          *)
(*   String            a sequence of one-character strings; "" is << >>    *)
(*   Option<T>         << >> for None, << v >> for Some(v)                 *)
(*   BTreeMap<K, V>    a function whose DOMAIN is the set of keys          *)
(*   Vec<T>            a sequence                                          *)
(***************************************************************************)
EXTENDS Integers, Sequences, FiniteSets, TLC

VARIABLES
    screen, error_message, task, deletion_info, show_modal,
    items, draft_item, draft_item_id, selected_item_id, item_edit_state,
    item_groups, item_group_edit_state_vec,
    price_levels, price_level_edit_state_vec,
    product_classes, product_class_edit_state_vec,
    tax_groups, tax_group_edit_state_vec,
    security_levels, security_level_edit_state_vec,
    revenue_categories, revenue_category_edit_state_vec,
    report_categories, draft_report_category, draft_report_category_id,
    selected_report_category_id, report_category_edit_state,
    report_category_edit_state_vec,
    choice_groups, draft_choice_group, draft_choice_group_id,
    selected_choice_group_id, choice_group_edit_state,
    choice_group_edit_state_vec,
    printer_logicals, draft_printer, draft_printer_id,
    selected_printer_id, printer_edit_state,
    printer_logical_edit_state_vec,
    last, snap, steps, call

\* task is what the runtime holds for the CSV export: the message a Task
\* will deliver to update(), the save-file dialog while it is open, or
\* "aborted" once a panic has ended the process.
\*
\* last, snap, steps and call are observation variables, not program state:
\*   last   the message handled by the latest step and what it emitted
\*   snap   the ten collections as they were in the initial state
\*   steps  the number of messages that can still be handled (bounded
\*          specifications)
\*   call   the sequence of operations being followed, with what the
\*          program held when the sequence started

vModal == <<deletion_info, show_modal>>
vItems == <<items, draft_item, draft_item_id, selected_item_id, item_edit_state>>
vItemGroups == <<item_groups, item_group_edit_state_vec>>
vPriceLevels == <<price_levels, price_level_edit_state_vec>>
vProductClasses == <<product_classes, product_class_edit_state_vec>>
vTaxGroups == <<tax_groups, tax_group_edit_state_vec>>
vSecurityLevels == <<security_levels, security_level_edit_state_vec>>
vRevenueCategories == <<revenue_categories, revenue_category_edit_state_vec>>
vReportCategories == <<report_categories, draft_report_category, draft_report_category_id, selected_report_category_id, report_category_edit_state, report_category_edit_state_vec>>
vChoiceGroups == <<choice_groups, draft_choice_group, draft_choice_group_id, selected_choice_group_id, choice_group_edit_state, choice_group_edit_state_vec>>
vPrinterLogicals == <<printer_logicals, draft_printer, draft_printer_id, selected_printer_id, printer_edit_state, printer_logical_edit_state_vec>>
vObs == <<last, snap, steps, call>>

vars == <<screen, error_message, task, vModal, vItems, vItemGroups, vPriceLevels, vProductClasses, vTaxGroups, vSecurityLevels, vRevenueCategories, vReportCategories, vChoiceGroups, vPrinterLogicals, vObs>>

\* Everything but one entity type's own variables (and but screen, which
\* nearly every handler assigns).
exceptItems == <<error_message, vModal, vItemGroups, vPriceLevels, vProductClasses, vTaxGroups, vSecurityLevels, vRevenueCategories, vReportCategories, vChoiceGroups, vPrinterLogicals>>
exceptItemGroups == <<error_message, vModal, vItems, vPriceLevels, vProductClasses, vTaxGroups, vSecurityLevels, vRevenueCategories, vReportCategories, vChoiceGroups, vPrinterLogicals>>
exceptPriceLevels == <<error_message, vModal, vItems, vItemGroups, vProductClasses, vTaxGroups, vSecurityLevels, vRevenueCategories, vReportCategories, vChoiceGroups, vPrinterLogicals>>
exceptProductClasses == <<error_message, vModal, vItems, vItemGroups, vPriceLevels, vTaxGroups, vSecurityLevels, vRevenueCategories, vReportCategories, vChoiceGroups, vPrinterLogicals>>
exceptTaxGroups == <<error_message, vModal, vItems, vItemGroups, vPriceLevels, vProductClasses, vSecurityLevels, vRevenueCategories, vReportCategories, vChoiceGroups, vPrinterLogicals>>
exceptSecurityLevels == <<error_message, vModal, vItems, vItemGroups, vPriceLevels, vProductClasses, vTaxGroups, vRevenueCategories, vReportCategories, vChoiceGroups, vPrinterLogicals>>
exceptRevenueCategories == <<error_message, vModal, vItems, vItemGroups, vPriceLevels, vProductClasses, vTaxGroups, vSecurityLevels, vReportCategories, vChoiceGroups, vPrinterLogicals>>
exceptChoiceGroups == <<error_message, vModal, vItems, vItemGroups, vPriceLevels, vProductClasses, vTaxGroups, vSecurityLevels, vRevenueCategories, vReportCategories, vPrinterLogicals>>

\* The ten collections, in the order of persistence::AppState.
collections == <<items, item_groups, price_levels, product_classes, tax_groups, security_levels, revenue_categories, report_categories, choice_groups, printer_logicals>>

-----------------------------------------------------------------------------
(* Bounds of the model *)

\* Largest ID a loaded snapshot of the small-ID specifications uses.
MaxId == 2
\* Most messages handled in one behaviour of a step-bounded specification.
MaxSteps == 4
\* The same for the specification of the row-edited types.
MaxRowSteps == 3
\* The same for the specification of the choice-group screen.
MaxFormSteps == 4
\* The same for the specification of the whole application.
MaxAppSteps == 2
\* The same for the specification of create-new, field edits and cancel.
MaxCancelSteps == 4

-----------------------------------------------------------------------------
(* Option, String and map helpers *)

None == << >>
Some(v) == << v >>
Unwrap(o) == o[1]

Max(S) == CHOOSE m \in S : \A x \in S : x <= m
Min(S) == CHOOSE m \in S : \A x \in S : m <= x

\* BTreeMap::insert / BTreeMap::remove
Insert(map, k, v) == [x \in (DOMAIN map) \cup {k} |-> IF x = k THEN v ELSE map[x]]
Remove(map, k) == [x \in (DOMAIN map) \ {k} |-> map[x]]
EmptyMap == [x \in {} |-> x]

Digit == <<"0", "1", "2", "3", "4", "5", "6", "7", "8", "9">>
IsDigit(c) == \E d \in 1..10 : Digit[d] = c
DigitVal(c) == (CHOOSE d \in 1..10 : Digit[d] = c) - 1

\* i32::to_string
RECURSIVE NatToStr(_)
NatToStr(n) == IF n < 10 THEN <<Digit[n + 1]>> ELSE NatToStr(n \div 10) \o <<Digit[(n % 10) + 1]>>
IntToStr(n) == IF n < 0 THEN <<"-">> \o NatToStr(0 - n) ELSE NatToStr(n)

\* EntityId = i32
I32Max == 2147483647
\* str::parse::<i32>: an optional sign, then one or more digits, within i32.
RECURSIVE DigitsVal(_)
DigitsVal(s) == IF s = << >> THEN 0 ELSE DigitsVal(SubSeq(s, 1, Len(s) - 1)) * 10 + DigitVal(s[Len(s)])
AllDigits(s) == s # << >> /\ \A i \in 1..Len(s) : IsDigit(s[i])
ParseI32(s) ==
    LET neg == s # << >> /\ s[1] = "-"
        body == IF s # << >> /\ s[1] \in {"-", "+"} THEN Tail(s) ELSE s
    IN IF AllDigits(body) /\ Len(body) <= 10 /\ DigitsVal(body) <= (IF neg THEN I32Max + 1 ELSE I32Max)
       THEN [ok |-> TRUE, val |-> IF neg THEN 0 - DigitsVal(body) ELSE DigitsVal(body)]
       ELSE [ok |-> FALSE, val |-> 0]

\* str::trim().is_empty()
IsWhite(c) == c \in {" ", "\t"}
RECURSIVE TrimStart(_)
TrimStart(s) == IF s # << >> /\ IsWhite(s[1]) THEN TrimStart(Tail(s)) ELSE s
RECURSIVE TrimEnd(_)
TrimEnd(s) == IF s # << >> /\ IsWhite(s[Len(s)]) THEN TrimEnd(SubSeq(s, 1, Len(s) - 1)) ELSE s
Trim(s) == TrimEnd(TrimStart(s))

\* Counts the entities instead of taking the greatest key.
NextIdByCount(map) == Cardinality(DOMAIN map) + 1

\* keys().max().map_or(1, |max_id| max_id + 1)
NextId(map) == IF DOMAIN map = {} THEN 1 ELSE Max(DOMAIN map) + 1

\* copy_item.name.clone() + "(" + next_id.to_string().as_str() + ")"
CopyName(name, next_id) == name \o <<"(">> \o IntToStr(next_id) \o <<")">>

-----------------------------------------------------------------------------
(* Entity records and their defaults *)

EntityTypes == {"Item", "ItemGroup", "PriceLevel", "ProductClass", "TaxGroup", "SecurityLevel", "RevenueCategory", "ReportCategory", "ChoiceGroup", "PrinterLogical"}

\* SecurityLevel::default(): id -1, empty name.  ReportCategory, ChoiceGroup
\* and PrinterLogical carry the same two fields and the same sentinel.
DefaultEntity == [id |-> -1, name |-> << >>]

\* Item: the fields main.rs reads and writes.  Item::default() is the draft
\* sentinel with every reference absent.
DefaultItem == [id |-> -1, name |-> << >>, item_group |-> None, tax_group |-> None, security_level |-> None, revenue_category |-> None, report_category |-> None, product_class |-> None, choice_groups |-> None, printer_logicals |-> None, price_levels |-> None, item_prices |-> None]

\* choice_groups::edit::EditState (also the shape of the report-category and
\* printer single-draft edit states): Default is all-empty.
DefaultEditState == [name |-> << >>, id |-> << >>, validation_error |-> None]

\* entity_component::EditState as main.rs builds it for the per-row lists.
RowEditState(entity) == [name |-> entity.name, original_name |-> entity.name, id |-> IntToStr(entity.id), id_validation_error |-> None, name_validation_error |-> None]

\* data_types::DeletionInfo::new(): nothing pending.
DeletionInfoNew == [entity_type |-> "", entity_id |-> -1, affected_items |-> << >>]

-----------------------------------------------------------------------------
(* Construction: MenuBuilder::default() followed by load_state() *)

\* A load that keys every element under its position in the list.
FromListByPosition(list) == [k \in 1..Len(list) |-> list[k]]

\* state.xs.into_iter().map(|i| (i.id, i)).collect(): a later element with
\* the same id replaces an earlier one.
RECURSIVE FromList(_)
FromList(list) == IF list = << >> THEN EmptyMap ELSE Insert(FromList(SubSeq(list, 1, Len(list) - 1)), list[Len(list)].id, list[Len(list)])

\* persistence::AppState with every list empty: what a missing file leaves.
EmptyFile == [items |-> << >>, item_groups |-> << >>, price_levels |-> << >>, product_classes |-> << >>, tax_groups |-> << >>, security_levels |-> << >>, revenue_categories |-> << >>, report_categories |-> << >>, choice_groups |-> << >>, printer_logicals |-> << >>]

\* The collections of MenuBuilder::default(): all empty.
DefaultCollections == [k \in DOMAIN EmptyFile |-> EmptyMap]

\* A load that takes the absence of the file for a failure.
LoadStateMissingFails(disk, before) ==
    IF disk.kind \in {"missing", "unreadable"} THEN [ok |-> FALSE, collections |-> before]
    ELSE [ok |-> TRUE, collections |-> [k \in DOMAIN disk.file |-> FromList(disk.file[k])]]

\* load_state() on what is at settings.file_path: no file (Ok, nothing
\* assigned), a file persistence::load_from_file cannot read (the error is
\* returned before anything is assigned), or a data file, whose lists are
\* collected into maps keyed by id.
LoadState(disk, before) ==
    IF disk.kind = "missing" THEN [ok |-> TRUE, collections |-> before]
    ELSE IF disk.kind = "unreadable" THEN [ok |-> FALSE, collections |-> before]
    ELSE [ok |-> TRUE, collections |-> [k \in DOMAIN disk.file |-> FromList(disk.file[k])]]

\* MenuBuilder::new(): the defaults, then load_state() and the error
\* message of a load that failed.  op is what last records of the start.
New(disk, op, budget) ==
    /\ screen = "Items(View)"
    /\ error_message = IF LoadState(disk, DefaultCollections).ok THEN None ELSE Some("Failed to load saved data")
    /\ task = "none"
    /\ deletion_info = DeletionInfoNew
    /\ show_modal = FALSE
    /\ items = LoadState(disk, DefaultCollections).collections.items
    /\ draft_item = DefaultItem
    /\ draft_item_id = None
    /\ selected_item_id = None
    /\ item_edit_state = [prices |-> None]
    /\ item_groups = LoadState(disk, DefaultCollections).collections.item_groups
    /\ item_group_edit_state_vec = << >>
    /\ price_levels = LoadState(disk, DefaultCollections).collections.price_levels
    /\ price_level_edit_state_vec = << >>
    /\ product_classes = LoadState(disk, DefaultCollections).collections.product_classes
    /\ product_class_edit_state_vec = << >>
    /\ tax_groups = LoadState(disk, DefaultCollections).collections.tax_groups
    /\ tax_group_edit_state_vec = << >>
    /\ security_levels = LoadState(disk, DefaultCollections).collections.security_levels
    /\ security_level_edit_state_vec = << >>
    /\ revenue_categories = LoadState(disk, DefaultCollections).collections.revenue_categories
    /\ revenue_category_edit_state_vec = << >>
    /\ report_categories = LoadState(disk, DefaultCollections).collections.report_categories
    /\ draft_report_category = DefaultEntity
    /\ draft_report_category_id = None
    /\ selected_report_category_id = None
    /\ report_category_edit_state = DefaultEditState
    /\ report_category_edit_state_vec = << >>
    /\ choice_groups = LoadState(disk, DefaultCollections).collections.choice_groups
    /\ draft_choice_group = DefaultEntity
    /\ draft_choice_group_id = None
    /\ selected_choice_group_id = None
    /\ choice_group_edit_state = DefaultEditState
    /\ choice_group_edit_state_vec = << >>
    /\ printer_logicals = LoadState(disk, DefaultCollections).collections.printer_logicals
    /\ draft_printer = DefaultEntity
    /\ draft_printer_id = None
    /\ selected_printer_id = None
    /\ printer_edit_state = DefaultEditState
    /\ printer_logical_edit_state_vec = << >>
    /\ last = [msg |-> "new", type |-> "", id |-> -1, op |-> op]
    /\ snap = LoadState(disk, DefaultCollections).collections
    /\ steps = budget
    /\ call = [fn |-> "none"]

\* MenuBuilder::new(): the defaults, then the collections of the data file.
InitWith(file, budget) == New([kind |-> "file", file |-> file], "none", budget)

\* What the latest step handled: the observation variables of a step, which
\* uses up one of the steps the specification started with.
Observe(msg, type, id, op) ==
    /\ steps > 0
    /\ last' = [msg |-> msg, type |-> type, id |-> id, op |-> op]
    /\ steps' = steps - 1
    /\ UNCHANGED <<snap, call>>

\* A step of a handler that returns Task::none() or a task of the module it
\* maps: the message the runtime holds for the export is left as it is.
Step(msg, type, id, op) == Observe(msg, type, id, op) /\ UNCHANGED task

-----------------------------------------------------------------------------
(* Screens: what MenuBuilder::view shows, and Message::Navigate *)

\* The screens on which the entities of a type are listed and edited.
ScreensOf(type) ==
    CASE type = "Item" -> {"Items(View)", "Items(Edit)"}
      [] type = "ItemGroup" -> {"ItemGroups"}
      [] type = "PriceLevel" -> {"PriceLevels"}
      [] type = "ProductClass" -> {"ProductClasses"}
      [] type = "TaxGroup" -> {"TaxGroups"}
      [] type = "SecurityLevel" -> {"SecurityLevels"}
      [] type = "RevenueCategory" -> {"RevenueCategories"}
      [] type = "ReportCategory" -> {"ReportCategories(View)", "ReportCategories(Edit)"}
      [] type = "ChoiceGroup" -> {"ChoiceGroups(View)", "ChoiceGroups(Edit)"}
      [] type = "PrinterLogical" -> {"PrinterLogicals(View)", "PrinterLogicals(Edit)"}

\* The screens the sidebar buttons navigate to.
NavScreens == {"Items(View)", "ItemGroups", "PriceLevels", "ProductClasses", "TaxGroups", "SecurityLevels", "RevenueCategories", "ReportCategories(View)", "ChoiceGroups(View)", "PrinterLogicals(View)", "Settings"}

\* The collection of a type.
CollectionOf(type) ==
    CASE type = "Item" -> items
      [] type = "ItemGroup" -> item_groups
      [] type = "PriceLevel" -> price_levels
      [] type = "ProductClass" -> product_classes
      [] type = "TaxGroup" -> tax_groups
      [] type = "SecurityLevel" -> security_levels
      [] type = "RevenueCategory" -> revenue_categories
      [] type = "ReportCategory" -> report_categories
      [] type = "ChoiceGroup" -> choice_groups
      [] type = "PrinterLogical" -> printer_logicals

\* view() indexes the collection with the selected ID (&self.xs[&id]) unless
\* the draft has that ID; indexing with an absent key panics.  The items
\* screen shows the draft for every negative selected ID.
DraftViewPanics(selected, draft_id, map) == selected # None /\ draft_id # selected /\ Unwrap(selected) \notin DOMAIN map
ViewPanics ==
    CASE screen \in ScreensOf("Item") -> selected_item_id # None /\ Unwrap(selected_item_id) >= 0 /\ DraftViewPanics(selected_item_id, draft_item_id, items)
      [] screen \in ScreensOf("ReportCategory") -> DraftViewPanics(selected_report_category_id, draft_report_category_id, report_categories)
      [] screen \in ScreensOf("ChoiceGroup") -> DraftViewPanics(selected_choice_group_id, draft_choice_group_id, choice_groups)
      [] screen \in ScreensOf("PrinterLogical") -> DraftViewPanics(selected_printer_id, draft_printer_id, printer_logicals)
      [] OTHER -> FALSE

\* The view is up and shows the screen of a type: its messages can be sent.
Shows(type) == screen \in ScreensOf(type) /\ ~ViewPanics

\* The screen of a draft-edited type shows an entity (the selected one, else
\* the first) and with it every button; with nothing to show it offers
\* CreateNew alone.
Listed(type, selected, map) == Shows(type) /\ (selected # None \/ DOMAIN map # {})

\* Message::Navigate(screen), sent by the sidebar (covered by the modal
\* while a deletion is pending).
Navigate(to) ==
    /\ ~show_modal
    /\ screen' = to
    /\ UNCHANGED <<error_message, vModal, vItems, vItemGroups, vPriceLevels, vProductClasses, vTaxGroups, vSecurityLevels, vRevenueCategories, vReportCategories, vChoiceGroups, vPrinterLogicals>>

\* A navigation step among some of the screens; it is not counted against
\* the step bounds.
NavStep(screens) ==
    \E to \in NavScreens \cap screens :
        /\ ~ViewPanics
        /\ Navigate(to)
        /\ last' = [msg |-> "Navigate", type |-> "", id |-> -1, op |-> "none"]
        /\ UNCHANGED <<snap, steps, call, task>>

-----------------------------------------------------------------------------
(* Deletion: RequestDelete, ConfirmDelete, CancelDelete *)

\* <type>::Operation::RequestDelete(id), the same handler for all ten types:
\* record the pending deletion and open the modal.
RequestDelete(entity_type, id) ==
    /\ ~show_modal
    /\ deletion_info' = [entity_type |-> entity_type, entity_id |-> id, affected_items |-> << >>]
    /\ show_modal' = TRUE
    /\ UNCHANGED <<screen, error_message, vItems, vItemGroups, vPriceLevels, vProductClasses, vTaxGroups, vSecurityLevels, vRevenueCategories, vReportCategories, vChoiceGroups, vPrinterLogicals>>

\* if let Some(list) = &mut field { list.retain(|&x| x != d);
\*                                  if list.is_empty() { field = None } }
ListCascadeKeepEmpty(field, d) == IF field = None THEN None ELSE Some(SelectSeq(Unwrap(field), LAMBDA x : x # d))
ListCascade(field, d) ==
    IF field = None
    THEN None
    ELSE LET kept == SelectSeq(Unwrap(field), LAMBDA x : x # d)
         IN IF kept = << >> THEN None ELSE Some(kept)

\* if let Some(x) = field { if x == d { field = None } }
ScalarCascadeAlways(field, d) == None
ScalarCascade(field, d) == IF field # None /\ Unwrap(field) = d THEN None ELSE field

\* The items collection after ConfirmDelete of (t, d): the match arm of t.
ItemsAfterDelete(t, d) ==
    CASE t = "ChoiceGroup" -> [i \in DOMAIN items |-> [items[i] EXCEPT !.choice_groups = ListCascade(@, d)]]
      [] t = "ItemGroup" -> [i \in DOMAIN items |-> [items[i] EXCEPT !.item_group = ScalarCascade(@, d)]]
      [] t = "Item" -> IF d \in DOMAIN items THEN Remove(items, d) ELSE items
      [] t = "PriceLevel" -> [i \in DOMAIN items |-> [items[i] EXCEPT !.price_levels = ListCascade(@, d)]]
      [] t = "PrinterLogical" -> [i \in DOMAIN items |-> [items[i] EXCEPT !.printer_logicals = ListCascade(@, d)]]
      [] t = "ProductClass" -> [i \in DOMAIN items |-> [items[i] EXCEPT !.product_class = ScalarCascade(@, d)]]
      [] t = "ReportCategory" -> [i \in DOMAIN items |-> [items[i] EXCEPT !.report_category = ScalarCascade(@, d)]]
      [] t = "RevenueCategory" -> [i \in DOMAIN items |-> [items[i] EXCEPT !.revenue_category = ScalarCascade(@, d)]]
      [] t = "SecurityLevel" -> [i \in DOMAIN items |-> [items[i] EXCEPT !.security_level = ScalarCascade(@, d)]]
      [] t = "TaxGroup" -> [i \in DOMAIN items |-> [items[i] EXCEPT !.tax_group = ScalarCascade(@, d)]]
      [] OTHER -> items

\* self.screen after ConfirmDelete of an entity of type t.
ScreenAfterDelete(t) ==
    CASE t = "ChoiceGroup" -> "ChoiceGroups(View)"
      [] t = "ItemGroup" -> "ItemGroups"
      [] t = "PriceLevel" -> "PriceLevels"
      [] t = "PrinterLogical" -> "PrinterLogicals(View)"
      [] t = "ProductClass" -> "ProductClasses"
      [] t = "ReportCategory" -> "ReportCategories(View)"
      [] t = "RevenueCategory" -> "RevenueCategories"
      [] t = "SecurityLevel" -> "SecurityLevels"
      [] t = "TaxGroup" -> "TaxGroups"
      [] OTHER -> screen

\* Message::ConfirmDelete(deletion_info): the Delete button of the modal,
\* which carries self.deletion_info.
ConfirmDelete ==
    /\ show_modal
    /\ LET t == deletion_info.entity_type
           d == deletion_info.entity_id
       IN /\ items' = ItemsAfterDelete(t, d)
          /\ choice_groups' = IF t = "ChoiceGroup" THEN Remove(choice_groups, d) ELSE choice_groups
          /\ selected_choice_group_id' = IF t = "ChoiceGroup" THEN None ELSE selected_choice_group_id
          /\ item_groups' = IF t = "ItemGroup" THEN Remove(item_groups, d) ELSE item_groups
          /\ price_levels' = IF t = "PriceLevel" THEN Remove(price_levels, d) ELSE price_levels
          /\ printer_logicals' = IF t = "PrinterLogical" THEN Remove(printer_logicals, d) ELSE printer_logicals
          /\ selected_printer_id' = IF t = "PrinterLogical" THEN None ELSE selected_printer_id
          /\ product_classes' = IF t = "ProductClass" THEN Remove(product_classes, d) ELSE product_classes
          /\ report_categories' = IF t = "ReportCategory" THEN Remove(report_categories, d) ELSE report_categories
          /\ selected_report_category_id' = IF t = "ReportCategory" THEN None ELSE selected_report_category_id
          /\ revenue_categories' = IF t = "RevenueCategory" THEN Remove(revenue_categories, d) ELSE revenue_categories
          /\ security_levels' = IF t = "SecurityLevel" THEN Remove(security_levels, d) ELSE security_levels
          /\ tax_groups' = IF t = "TaxGroup" THEN Remove(tax_groups, d) ELSE tax_groups
          /\ screen' = ScreenAfterDelete(t)
    /\ deletion_info' = DeletionInfoNew
    /\ show_modal' = FALSE
    /\ UNCHANGED <<error_message, draft_item, draft_item_id, selected_item_id, item_edit_state>>
    /\ UNCHANGED <<item_group_edit_state_vec, price_level_edit_state_vec, product_class_edit_state_vec, tax_group_edit_state_vec, security_level_edit_state_vec, revenue_category_edit_state_vec>>
    /\ UNCHANGED <<draft_report_category, draft_report_category_id, report_category_edit_state, report_category_edit_state_vec>>
    /\ UNCHANGED <<draft_choice_group, draft_choice_group_id, choice_group_edit_state, choice_group_edit_state_vec>>
    /\ UNCHANGED <<draft_printer, draft_printer_id, printer_edit_state, printer_logical_edit_state_vec>>

\* A Cancel that closes the modal and keeps the pending deletion.
CancelDeleteKeepPending ==
    /\ show_modal
    /\ show_modal' = FALSE
    /\ UNCHANGED <<deletion_info, screen, error_message, vItems, vItemGroups, vPriceLevels, vProductClasses, vTaxGroups, vSecurityLevels, vRevenueCategories, vReportCategories, vChoiceGroups, vPrinterLogicals>>

\* Message::CancelDelete: the Cancel button of the modal.
CancelDelete ==
    /\ show_modal
    /\ deletion_info' = DeletionInfoNew
    /\ show_modal' = FALSE
    /\ UNCHANGED <<screen, error_message, vItems, vItemGroups, vPriceLevels, vProductClasses, vTaxGroups, vSecurityLevels, vRevenueCategories, vReportCategories, vChoiceGroups, vPrinterLogicals>>

-----------------------------------------------------------------------------
(* Deletion over a loaded data file *)

Ids == 1..MaxId
Elems(seq) == {seq[k] : k \in DOMAIN seq}

ListTypes == {"ChoiceGroup", "PrinterLogical", "PriceLevel"}
ScalarTypes == {"ItemGroup", "TaxGroup", "SecurityLevel", "RevenueCategory", "ReportCategory", "ProductClass"}

\* The Item field that refers to entities of type t.
ListFieldOf(item, t) ==
    CASE t = "ChoiceGroup" -> item.choice_groups
      [] t = "PrinterLogical" -> item.printer_logicals
      [] t = "PriceLevel" -> item.price_levels
ScalarFieldOf(item, t) ==
    CASE t = "ItemGroup" -> item.item_group
      [] t = "TaxGroup" -> item.tax_group
      [] t = "SecurityLevel" -> item.security_level
      [] t = "RevenueCategory" -> item.revenue_category
      [] t = "ReportCategory" -> item.report_category
      [] t = "ProductClass" -> item.product_class

\* Sample stored entities of each type, as a data file holds them.
StoredEntity(i) == [id |-> i, name |-> <<"n">>]
StoredItemGroup(i) == [id |-> i, name |-> <<"n">>, id_range |-> [start |-> 100 * i, end |-> 100 * i + 50]]
StoredTaxGroup(i) == [id |-> i, name |-> <<"n">>, rate |-> 0]
StoredPriceLevel(i) == [id |-> i, name |-> <<"n">>, price |-> 0, level_type |-> "Enterprise"]
StoredProductClass(i, item_group, revenue_category) == [id |-> i, name |-> <<"n">>, item_group |-> item_group, revenue_category |-> revenue_category]
StoredItem(i, scalar, list) == [DefaultItem EXCEPT !.id = i, !.name = <<"n">>, !.item_group = scalar, !.tax_group = scalar, !.security_level = scalar, !.revenue_category = scalar, !.report_category = scalar, !.product_class = scalar, !.choice_groups = list, !.printer_logicals = list, !.price_levels = list]

ScalarRefs == {None} \cup {Some(i) : i \in Ids}
ListRefs == {None} \cup {Some(<<i>>) : i \in Ids} \cup {Some(<<i, j>>) : i, j \in Ids}

\* A data file with entities 1..MaxId of every type and no dangling
\* reference: item 1 refers as (scalar, list) say, every other item i and
\* every product class i to the entities numbered i.
DeleteFile(scalar, list) ==
    [items |-> [i \in Ids |-> IF i = 1 THEN StoredItem(1, scalar, list) ELSE StoredItem(i, Some(i), Some(<<i>>))],
     item_groups |-> [i \in Ids |-> StoredItemGroup(i)],
     price_levels |-> [i \in Ids |-> StoredPriceLevel(i)],
     product_classes |-> [i \in Ids |-> StoredProductClass(i, Some(i), Some(i))],
     tax_groups |-> [i \in Ids |-> StoredTaxGroup(i)],
     security_levels |-> [i \in Ids |-> StoredEntity(i)],
     revenue_categories |-> [i \in Ids |-> StoredEntity(i)],
     report_categories |-> [i \in Ids |-> StoredEntity(i)],
     choice_groups |-> [i \in Ids |-> StoredEntity(i)],
     printer_logicals |-> [i \in Ids |-> StoredEntity(i)]]

InitDelete == \E scalar \in ScalarRefs, list \in ListRefs : InitWith(DeleteFile(scalar, list), MaxSteps)

NextModal ==
    \/ \E t \in EntityTypes : \E id \in DOMAIN CollectionOf(t) : Shows(t) /\ RequestDelete(t, id) /\ Step("RequestDelete", t, id, "RequestDelete")
    \/ ~ViewPanics /\ ConfirmDelete /\ Step("ConfirmDelete", deletion_info.entity_type, deletion_info.entity_id, "none")
    \/ ~ViewPanics /\ CancelDelete /\ Step("CancelDelete", "", -1, "none")

SpecDelete == InitDelete /\ [][NavStep(NavScreens) \/ NextModal]_vars

\* The latest step was a confirmed delete of an entity of one of the types.
Deleted(types) == last.msg = "ConfirmDelete" /\ last.type \in types

\* C5: after a confirmed delete of a ChoiceGroup, PrinterLogical or
\* PriceLevel with ID d, no Item's corresponding list contains d, and no
\* such list is a present empty list: an emptied list is absent (None).
C5_ListCascade ==
    Deleted(ListTypes) =>
        \A i \in DOMAIN items :
            LET list == ListFieldOf(items[i], last.type)
            IN list = None \/ (Unwrap(list) # << >> /\ last.id \notin Elems(Unwrap(list)))

\* A choice group was deleted: one item that listed only it now has no
\* list, another that listed it among others keeps the others.
C5_Witness ==
    /\ Deleted({"ChoiceGroup"})
    /\ \E i \in DOMAIN items : snap.items[i].choice_groups = Some(<<last.id>>) /\ items[i].choice_groups = None
    /\ \E j \in DOMAIN items :
        /\ snap.items[j].choice_groups # None
        /\ last.id \in Elems(Unwrap(snap.items[j].choice_groups))
        /\ items[j].choice_groups # None

\* C6: a confirmed delete of an ItemGroup, TaxGroup, SecurityLevel,
\* RevenueCategory, ReportCategory or ProductClass with ID d sets the
\* matching scalar reference of every Item that held d to absent, leaves
\* every other Item's reference as it was, and removes no Item.
C6_ScalarCascade ==
    [][(show_modal /\ deletion_info.entity_type \in ScalarTypes /\ last'.msg = "ConfirmDelete") =>
        /\ DOMAIN items' = DOMAIN items
        /\ \A i \in DOMAIN items :
            LET before == ScalarFieldOf(items[i], deletion_info.entity_type)
                after == ScalarFieldOf(items'[i], deletion_info.entity_type)
            IN IF before = Some(deletion_info.entity_id) THEN after = None ELSE after = before]_vars

\* A tax group was deleted: one item that referred to it now refers to
\* none, another still refers to a different tax group, no item is gone.
C6_Witness ==
    /\ Deleted({"TaxGroup"})
    /\ DOMAIN items = DOMAIN snap.items
    /\ \E i \in DOMAIN items : snap.items[i].tax_group = Some(last.id) /\ items[i].tax_group = None
    /\ \E j \in DOMAIN items : items[j].tax_group # None /\ items[j].tax_group = snap.items[j].tax_group

\* C7: after a confirmed delete of an ItemGroup with ID d no ProductClass
\* has item_group = d, and after a confirmed delete of a RevenueCategory
\* with ID d no ProductClass has revenue_category = d.
C7_ProductClassCascade ==
    /\ Deleted({"ItemGroup"}) => \A p \in DOMAIN product_classes : product_classes[p].item_group # Some(last.id)
    /\ Deleted({"RevenueCategory"}) => \A p \in DOMAIN product_classes : product_classes[p].revenue_category # Some(last.id)

\* Every reference of one record names an entity of the target collection.
ScalarOk(ref, target) == ref = None \/ Unwrap(ref) \in DOMAIN target
ListOk(ref, target) == ref = None \/ Elems(Unwrap(ref)) \subseteq DOMAIN target

\* C1: no Item and no ProductClass holds a scalar or list reference to an
\* ID that is absent from the referenced collection.
C1_ReferentialIntegrity ==
    /\ \A i \in DOMAIN items :
        /\ ScalarOk(items[i].item_group, item_groups)
        /\ ScalarOk(items[i].tax_group, tax_groups)
        /\ ScalarOk(items[i].security_level, security_levels)
        /\ ScalarOk(items[i].revenue_category, revenue_categories)
        /\ ScalarOk(items[i].report_category, report_categories)
        /\ ScalarOk(items[i].product_class, product_classes)
        /\ ListOk(items[i].choice_groups, choice_groups)
        /\ ListOk(items[i].printer_logicals, printer_logicals)
        /\ ListOk(items[i].price_levels, price_levels)
    /\ \A p \in DOMAIN product_classes :
        /\ ScalarOk(product_classes[p].item_group, item_groups)
        /\ ScalarOk(product_classes[p].revenue_category, revenue_categories)

-----------------------------------------------------------------------------
(* Row-edited types: the per-row edit-state lists *)

\* Text a user can type into a name field, and into an ID-range field.
Names == {<< >>, <<"a">>}
RangeInputs == {<<"0">>, <<"5">>, <<"x">>}

\* ItemGroupEditState / TaxGroupEditState / PriceLevelEditState wrap the
\* common edit state as .base; the other row types use it bare.
Base(state) == IF "base" \in DOMAIN state THEN state.base ELSE state
WithName(state, name) == IF "base" \in DOMAIN state THEN [state EXCEPT !.base.name = name] ELSE [state EXCEPT !.name = name]

\* state.id.parse::<i32>().unwrap()
EditingId(state) == ParseI32(Base(state).id).val

\* vec.iter().any(|state| state.id.parse::<i32>().unwrap() == id)
AlreadyEditing(vec, id) == \E k \in DOMAIN vec : EditingId(vec[k]) = id

\* vec.iter().find(..): the position of the first edit state of id.
FindEditState(vec, id) == CHOOSE k \in DOMAIN vec : EditingId(vec[k]) = id /\ \A j \in 1..(k - 1) : EditingId(vec[j]) # id

\* vec.retain(|state| state.id.parse::<i32>().unwrap() != id)
DropEditState(vec, id) == SelectSeq(vec, LAMBDA state : EditingId(state) # id)

\* if let Some(edit_state) = vec.iter_mut().find(..) { edit_state.name = new_name }
SetEditName(vec, id, new_name) == IF AlreadyEditing(vec, id) THEN [vec EXCEPT ![FindEditState(vec, id)] = WithName(@, new_name)] ELSE vec

\* if !already_editing { if let Some(e) = map.get(&id) { vec.push(state) } }
PushEditState(vec, map, id, state) == IF ~AlreadyEditing(vec, id) /\ id \in DOMAIN map THEN Append(vec, state) ELSE vec

\* A copy that keeps the id of its source (what ..copy.clone() alone gives).
CopyKeepId(map, id) == Insert(map, NextId(map), [map[id] EXCEPT !.name = CopyName(@, NextId(map))])

\* A copy that keeps the name of its source.
CopySameName(map, id) == Insert(map, NextId(map), [map[id] EXCEPT !.id = NextId(map)])

\* T { id: next_id, name: copy.name + "(" + next_id + ")", ..copy.clone() }
\* inserted under next_id.
CopyEntity(map, id) == Insert(map, NextId(map), [map[id] EXCEPT !.id = NextId(map), !.name = CopyName(@, NextId(map))])

\* if let Some(edit_state) = vec.find(..) { if let Some(e) = map.get_mut(&id)
\*     { e.name = edit_state.name } }
SaveName(map, vec, id) == IF AlreadyEditing(vec, id) /\ id \in DOMAIN map THEN [map EXCEPT ![id].name = Base(vec[FindEditState(vec, id)]).name] ELSE map

-----------------------------------------------------------------------------
(* Item groups *)

ItemGroupEditState(item_group) == [base |-> RowEditState(item_group), id_range_start |-> IntToStr(item_group.id_range.start), id_range_end |-> IntToStr(item_group.id_range.end)]

ItemGroupsCopyItemGroup(id) ==
    /\ ~show_modal
    /\ id \in DOMAIN item_groups
    /\ item_groups' = CopyEntity(item_groups, id)
    /\ screen' = "ItemGroups"
    /\ UNCHANGED <<item_group_edit_state_vec, exceptItemGroups>>

ItemGroupsEditItemGroup(id) ==
    /\ ~show_modal
    /\ item_group_edit_state_vec' = IF id \in DOMAIN item_groups
                                    THEN PushEditState(item_group_edit_state_vec, item_groups, id, ItemGroupEditState(item_groups[id]))
                                    ELSE item_group_edit_state_vec
    /\ screen' = "ItemGroups"
    /\ UNCHANGED <<item_groups, exceptItemGroups>>

\* The two .expect() calls panic on text that is not an i32: no next state.
ItemGroupsSaveAll(id) ==
    /\ ~show_modal
    /\ IF AlreadyEditing(item_group_edit_state_vec, id)
       THEN LET edit_state == item_group_edit_state_vec[FindEditState(item_group_edit_state_vec, id)]
                start == ParseI32(edit_state.id_range_start)
                end == ParseI32(edit_state.id_range_end)
            IN /\ start.ok /\ end.ok
               /\ item_groups' = IF id \in DOMAIN item_groups
                                 THEN [item_groups EXCEPT ![id].name = edit_state.base.name, ![id].id_range = [start |-> start.val, end |-> end.val]]
                                 ELSE item_groups
       ELSE item_groups' = item_groups
    /\ item_group_edit_state_vec' = DropEditState(item_group_edit_state_vec, id)
    /\ screen' = "ItemGroups"
    /\ UNCHANGED exceptItemGroups

ItemGroupsUpdateName(id, new_name) ==
    /\ ~show_modal
    /\ item_group_edit_state_vec' = SetEditName(item_group_edit_state_vec, id, new_name)
    /\ screen' = "ItemGroups"
    /\ UNCHANGED <<item_groups, exceptItemGroups>>

ItemGroupsUpdateIdRangeStart(id, new_range) ==
    /\ ~show_modal
    /\ item_group_edit_state_vec' = IF AlreadyEditing(item_group_edit_state_vec, id)
                                    THEN [item_group_edit_state_vec EXCEPT ![FindEditState(item_group_edit_state_vec, id)].id_range_start = new_range]
                                    ELSE item_group_edit_state_vec
    /\ screen' = "ItemGroups"
    /\ UNCHANGED <<item_groups, exceptItemGroups>>

ItemGroupsUpdateIdRangeEnd(id, new_range) ==
    /\ ~show_modal
    /\ item_group_edit_state_vec' = IF AlreadyEditing(item_group_edit_state_vec, id)
                                    THEN [item_group_edit_state_vec EXCEPT ![FindEditState(item_group_edit_state_vec, id)].id_range_end = new_range]
                                    ELSE item_group_edit_state_vec
    /\ screen' = "ItemGroups"
    /\ UNCHANGED <<item_groups, exceptItemGroups>>

NewItemGroup == [id |-> NextId(item_groups), id_range |-> [start |-> 0, end |-> 0], name |-> << >>]

ItemGroupsCreateNew ==
    /\ ~show_modal
    /\ item_groups' = Insert(item_groups, NextId(item_groups), NewItemGroup)
    /\ item_group_edit_state_vec' = Append(item_group_edit_state_vec, ItemGroupEditState(NewItemGroup))
    /\ UNCHANGED <<screen, exceptItemGroups>>

ItemGroupsCancelEdit(id) ==
    /\ ~show_modal
    /\ item_group_edit_state_vec' = DropEditState(item_group_edit_state_vec, id)
    /\ screen' = "ItemGroups"
    /\ UNCHANGED <<item_groups, exceptItemGroups>>

-----------------------------------------------------------------------------
(* Tax groups *)

\* A Decimal rate is held as a count of hundredths: Decimal::new(0, 2) is 0.
\* Decimal::to_string with two places, and data_types::string_to_decimal.
RateInputs == {<<"5">>, <<"x">>}
DecimalToString(rate) == IntToStr(rate \div 100) \o <<".">> \o <<Digit[((rate % 100) \div 10) + 1], Digit[(rate % 10) + 1]>>
StringToDecimal(s) ==
    LET dots == {k \in DOMAIN s : s[k] = "."}
        k == CHOOSE k \in dots : TRUE
        whole == IF dots = {} THEN s ELSE SubSeq(s, 1, k - 1)
        frac == IF dots = {} THEN <<"0">> ELSE SubSeq(s, k + 1, Len(s))
    IN IF Cardinality(dots) <= 1 /\ AllDigits(whole) /\ AllDigits(frac) /\ Len(frac) <= 2
       THEN [ok |-> TRUE, val |-> DigitsVal(whole) * 100 + (IF Len(frac) = 1 THEN 10 ELSE 1) * DigitsVal(frac)]
       ELSE [ok |-> FALSE, val |-> 0]

TaxGroupEditState(tax_group) == [base |-> RowEditState(tax_group), rate |-> DecimalToString(tax_group.rate)]

TaxGroupsCopyTaxGroup(id) ==
    /\ ~show_modal
    /\ id \in DOMAIN tax_groups
    /\ tax_groups' = CopyEntity(tax_groups, id)
    /\ screen' = "TaxGroups"
    /\ UNCHANGED <<tax_group_edit_state_vec, exceptTaxGroups>>

TaxGroupsEditTaxGroup(id) ==
    /\ ~show_modal
    /\ tax_group_edit_state_vec' = IF id \in DOMAIN tax_groups
                                THEN PushEditState(tax_group_edit_state_vec, tax_groups, id, TaxGroupEditState(tax_groups[id]))
                                ELSE tax_group_edit_state_vec
    /\ screen' = "TaxGroups"
    /\ UNCHANGED <<tax_groups, exceptTaxGroups>>

\* .expect("Rate should be validated ...") panics on text that is not a
\* decimal: no next state.
TaxGroupsSaveAll(id) ==
    /\ ~show_modal
    /\ IF AlreadyEditing(tax_group_edit_state_vec, id) /\ id \in DOMAIN tax_groups
       THEN LET edit_state == tax_group_edit_state_vec[FindEditState(tax_group_edit_state_vec, id)]
                new_rate == StringToDecimal(edit_state.rate)
            IN /\ new_rate.ok
               /\ tax_groups' = [tax_groups EXCEPT ![id].name = edit_state.base.name, ![id].rate = new_rate.val]
       ELSE tax_groups' = tax_groups
    /\ tax_group_edit_state_vec' = DropEditState(tax_group_edit_state_vec, id)
    /\ screen' = "TaxGroups"
    /\ UNCHANGED exceptTaxGroups

TaxGroupsUpdateTaxRate(id, new_rate) ==
    /\ ~show_modal
    /\ tax_group_edit_state_vec' = IF AlreadyEditing(tax_group_edit_state_vec, id)
                                   THEN [tax_group_edit_state_vec EXCEPT ![FindEditState(tax_group_edit_state_vec, id)].rate = new_rate]
                                   ELSE tax_group_edit_state_vec
    /\ screen' = "TaxGroups"
    /\ UNCHANGED <<tax_groups, exceptTaxGroups>>

TaxGroupsUpdateName(id, new_name) ==
    /\ ~show_modal
    /\ tax_group_edit_state_vec' = SetEditName(tax_group_edit_state_vec, id, new_name)
    /\ screen' = "TaxGroups"
    /\ UNCHANGED <<tax_groups, exceptTaxGroups>>

NewTaxGroup == [id |-> NextId(tax_groups), name |-> << >>, rate |-> 0]

TaxGroupsCreateNew ==
    /\ ~show_modal
    /\ tax_groups' = Insert(tax_groups, NextId(tax_groups), NewTaxGroup)
    /\ tax_group_edit_state_vec' = Append(tax_group_edit_state_vec, TaxGroupEditState(NewTaxGroup))
    /\ UNCHANGED <<screen, exceptTaxGroups>>

TaxGroupsCancelEdit(id) ==
    /\ ~show_modal
    /\ tax_group_edit_state_vec' = DropEditState(tax_group_edit_state_vec, id)
    /\ screen' = "TaxGroups"
    /\ UNCHANGED <<tax_groups, exceptTaxGroups>>

-----------------------------------------------------------------------------
(* Security levels *)

SecurityLevelsCopySecurityLevel(id) ==
    /\ ~show_modal
    /\ id \in DOMAIN security_levels
    /\ security_levels' = CopyEntity(security_levels, id)
    /\ screen' = "SecurityLevels"
    /\ UNCHANGED <<security_level_edit_state_vec, exceptSecurityLevels>>

SecurityLevelsEditSecurityLevel(id) ==
    /\ ~show_modal
    /\ security_level_edit_state_vec' = IF id \in DOMAIN security_levels
                                     THEN PushEditState(security_level_edit_state_vec, security_levels, id, RowEditState(security_levels[id]))
                                     ELSE security_level_edit_state_vec
    /\ screen' = "SecurityLevels"
    /\ UNCHANGED <<security_levels, exceptSecurityLevels>>

SecurityLevelsSaveAll(id) ==
    /\ ~show_modal
    /\ security_levels' = SaveName(security_levels, security_level_edit_state_vec, id)
    /\ security_level_edit_state_vec' = DropEditState(security_level_edit_state_vec, id)
    /\ screen' = "SecurityLevels"
    /\ UNCHANGED exceptSecurityLevels

SecurityLevelsUpdateName(id, new_name) ==
    /\ ~show_modal
    /\ security_level_edit_state_vec' = SetEditName(security_level_edit_state_vec, id, new_name)
    /\ screen' = "SecurityLevels"
    /\ UNCHANGED <<security_levels, exceptSecurityLevels>>

NewSecurityLevel == [id |-> NextId(security_levels), name |-> << >>]

SecurityLevelsCreateNew ==
    /\ ~show_modal
    /\ security_levels' = Insert(security_levels, NextId(security_levels), NewSecurityLevel)
    /\ security_level_edit_state_vec' = Append(security_level_edit_state_vec, RowEditState(NewSecurityLevel))
    /\ UNCHANGED <<screen, exceptSecurityLevels>>

SecurityLevelsCancelEdit(id) ==
    /\ ~show_modal
    /\ security_level_edit_state_vec' = DropEditState(security_level_edit_state_vec, id)
    /\ screen' = "SecurityLevels"
    /\ UNCHANGED <<security_levels, exceptSecurityLevels>>

-----------------------------------------------------------------------------
(* Revenue categories *)

RevenueCategoriesCopyRevenueCategory(id) ==
    /\ ~show_modal
    /\ id \in DOMAIN revenue_categories
    /\ revenue_categories' = CopyEntity(revenue_categories, id)
    /\ screen' = "RevenueCategories"
    /\ UNCHANGED <<revenue_category_edit_state_vec, exceptRevenueCategories>>

\* The entity to edit is looked up in self.report_categories.
RevenueCategoriesEditRevenueCategory(id) ==
    /\ ~show_modal
    /\ revenue_category_edit_state_vec' = IF id \in DOMAIN report_categories
                                       THEN PushEditState(revenue_category_edit_state_vec, report_categories, id, RowEditState(report_categories[id]))
                                       ELSE revenue_category_edit_state_vec
    /\ screen' = "RevenueCategories"
    /\ UNCHANGED <<revenue_categories, exceptRevenueCategories>>

RevenueCategoriesSaveAll(id) ==
    /\ ~show_modal
    /\ revenue_categories' = SaveName(revenue_categories, revenue_category_edit_state_vec, id)
    /\ revenue_category_edit_state_vec' = DropEditState(revenue_category_edit_state_vec, id)
    /\ screen' = "RevenueCategories"
    /\ UNCHANGED exceptRevenueCategories

RevenueCategoriesUpdateName(id, new_name) ==
    /\ ~show_modal
    /\ revenue_category_edit_state_vec' = SetEditName(revenue_category_edit_state_vec, id, new_name)
    /\ screen' = "RevenueCategories"
    /\ UNCHANGED <<revenue_categories, exceptRevenueCategories>>

NewRevenueCategory == [id |-> NextId(revenue_categories), name |-> << >>]

RevenueCategoriesCreateNew ==
    /\ ~show_modal
    /\ revenue_categories' = Insert(revenue_categories, NextId(revenue_categories), NewRevenueCategory)
    /\ revenue_category_edit_state_vec' = Append(revenue_category_edit_state_vec, RowEditState(NewRevenueCategory))
    /\ UNCHANGED <<screen, exceptRevenueCategories>>

RevenueCategoriesCancelEdit(id) ==
    /\ ~show_modal
    /\ revenue_category_edit_state_vec' = DropEditState(revenue_category_edit_state_vec, id)
    /\ screen' = "RevenueCategories"
    /\ UNCHANGED <<revenue_categories, exceptRevenueCategories>>

-----------------------------------------------------------------------------
(* Product classes *)

ProductClassesCopyProductClass(id) ==
    /\ ~show_modal
    /\ id \in DOMAIN product_classes
    /\ product_classes' = CopyEntity(product_classes, id)
    /\ screen' = "ProductClasses"
    /\ UNCHANGED <<product_class_edit_state_vec, exceptProductClasses>>

ProductClassesEditProductClass(id) ==
    /\ ~show_modal
    /\ product_class_edit_state_vec' = IF id \in DOMAIN product_classes
                                    THEN PushEditState(product_class_edit_state_vec, product_classes, id, RowEditState(product_classes[id]))
                                    ELSE product_class_edit_state_vec
    /\ screen' = "ProductClasses"
    /\ UNCHANGED <<product_classes, exceptProductClasses>>

ProductClassesSaveAll(id) ==
    /\ ~show_modal
    /\ product_classes' = SaveName(product_classes, product_class_edit_state_vec, id)
    /\ product_class_edit_state_vec' = DropEditState(product_class_edit_state_vec, id)
    /\ screen' = "ProductClasses"
    /\ UNCHANGED exceptProductClasses

ProductClassesUpdateName(id, new_name) ==
    /\ ~show_modal
    /\ product_class_edit_state_vec' = SetEditName(product_class_edit_state_vec, id, new_name)
    /\ screen' = "ProductClasses"
    /\ UNCHANGED <<product_classes, exceptProductClasses>>

NewProductClass == [id |-> NextId(product_classes), name |-> << >>, item_group |-> None, revenue_category |-> None]

ProductClassesCreateNew ==
    /\ ~show_modal
    /\ product_classes' = Insert(product_classes, NextId(product_classes), NewProductClass)
    /\ product_class_edit_state_vec' = Append(product_class_edit_state_vec, RowEditState(NewProductClass))
    /\ UNCHANGED <<screen, exceptProductClasses>>

ProductClassesCancelEdit(id) ==
    /\ ~show_modal
    /\ product_class_edit_state_vec' = DropEditState(product_class_edit_state_vec, id)
    /\ screen' = "ProductClasses"
    /\ UNCHANGED <<product_classes, exceptProductClasses>>

-----------------------------------------------------------------------------
(* Price levels *)

PriceLevelEditState(price_level) == [base |-> RowEditState(price_level)]

PriceLevelsCopyPriceLevel(id) ==
    /\ ~show_modal
    /\ id \in DOMAIN price_levels
    /\ price_levels' = CopyEntity(price_levels, id)
    /\ screen' = "PriceLevels"
    /\ UNCHANGED <<price_level_edit_state_vec, exceptPriceLevels>>

PriceLevelsEditPriceLevel(id) ==
    /\ ~show_modal
    /\ price_level_edit_state_vec' = IF id \in DOMAIN price_levels
                                  THEN PushEditState(price_level_edit_state_vec, price_levels, id, PriceLevelEditState(price_levels[id]))
                                  ELSE price_level_edit_state_vec
    /\ screen' = "PriceLevels"
    /\ UNCHANGED <<price_levels, exceptPriceLevels>>

PriceLevelsSaveAll(id) ==
    /\ ~show_modal
    /\ price_levels' = SaveName(price_levels, price_level_edit_state_vec, id)
    /\ price_level_edit_state_vec' = DropEditState(price_level_edit_state_vec, id)
    /\ screen' = "PriceLevels"
    /\ UNCHANGED exceptPriceLevels

PriceLevelsUpdateName(id, new_name) ==
    /\ ~show_modal
    /\ price_level_edit_state_vec' = SetEditName(price_level_edit_state_vec, id, new_name)
    /\ screen' = "PriceLevels"
    /\ UNCHANGED <<price_levels, exceptPriceLevels>>

NewPriceLevel == [id |-> NextId(price_levels), name |-> << >>, level_type |-> "Enterprise", price |-> 0]

PriceLevelsCreateNew ==
    /\ ~show_modal
    /\ price_levels' = Insert(price_levels, NextId(price_levels), NewPriceLevel)
    /\ price_level_edit_state_vec' = Append(price_level_edit_state_vec, PriceLevelEditState(NewPriceLevel))
    /\ UNCHANGED <<screen, exceptPriceLevels>>

PriceLevelsCancelEdit(id) ==
    /\ ~show_modal
    /\ price_level_edit_state_vec' = DropEditState(price_level_edit_state_vec, id)
    /\ screen' = "PriceLevels"
    /\ UNCHANGED <<price_levels, exceptPriceLevels>>

-----------------------------------------------------------------------------
(* ID ranges and the row-edited types over a loaded data file *)

\* data_types::IdRange::is_valid, by the name of the range.
IdRangeIsValid(range, id) ==
    CASE range = "TaxGroup" -> id \in 1..99
      [] range = "SecurityLevel" -> id \in 0..9
      [] range = "RevenueCategory" -> id \in 1..99
      [] range = "ReportCategory" -> id \in 1..255
      [] range = "ProductClass" -> id \in 1..999
      [] range = "ChoiceGroup" -> id \in 1..9999
      [] range = "PrinterLogical" -> id \in 0..25
      [] range = "PriceLevel" -> id \in 1..999
      [] range = "StorePriceLevel" -> id \in 1..99999

\* The largest valid ID of a range.
IdRangeTop(range) == CHOOSE id \in 0..99999 : IdRangeIsValid(range, id) /\ ~IdRangeIsValid(range, id + 1)

\* The range that applies to a price level: by its level type.
PriceLevelRange(price_level) == IF price_level.level_type = "Store" THEN "StorePriceLevel" ELSE "PriceLevel"

\* The test on half-open ranges: a range that starts where another ends
\* does not overlap it.
RangesOverlapHalfOpen(r1, r2) == r1.start < r2.end /\ r2.start < r1.end

\* item_groups::edit::ranges_overlap on start..=end of two item groups.
RangesOverlap(r1, r2) == r1.start <= r2.end /\ r2.start <= r1.end

\* A data file with one entity of every row-edited type, numbered 1 or,
\* if high, with the largest ID valid for its type.
RowsFile(high) ==
    [EmptyFile EXCEPT
        !.item_groups = <<StoredItemGroup(1)>>,
        !.tax_groups = <<StoredTaxGroup(IF high THEN IdRangeTop("TaxGroup") ELSE 1)>>,
        !.security_levels = <<StoredEntity(IF high THEN IdRangeTop("SecurityLevel") ELSE 1)>>,
        !.revenue_categories = <<StoredEntity(IF high THEN IdRangeTop("RevenueCategory") ELSE 1)>>,
        !.product_classes = <<StoredProductClass(IF high THEN IdRangeTop("ProductClass") ELSE 1, None, None)>>,
        !.price_levels = <<StoredPriceLevel(IF high THEN IdRangeTop("PriceLevel") ELSE 1)>>]

InitRows == \E high \in BOOLEAN : InitWith(RowsFile(high), MaxRowSteps)

\* A step of the specification of the row-edited types.
RowStep(msg, type, id) == Shows(type) /\ Step(msg, type, id, msg)

NextItemGroups ==
    \/ \E id \in DOMAIN item_groups : ItemGroupsCopyItemGroup(id) /\ RowStep("Copy", "ItemGroup", id)
    \/ \E id \in DOMAIN item_groups : ItemGroupsEditItemGroup(id) /\ RowStep("Edit", "ItemGroup", id)
    \/ \E id \in DOMAIN item_groups : ItemGroupsSaveAll(id) /\ RowStep("SaveAll", "ItemGroup", id)
    \/ \E id \in DOMAIN item_groups, new_name \in Names : ItemGroupsUpdateName(id, new_name) /\ RowStep("UpdateName", "ItemGroup", id)
    \/ \E id \in DOMAIN item_groups, new_range \in RangeInputs : ItemGroupsUpdateIdRangeStart(id, new_range) /\ RowStep("UpdateIdRangeStart", "ItemGroup", id)
    \/ \E id \in DOMAIN item_groups, new_range \in RangeInputs : ItemGroupsUpdateIdRangeEnd(id, new_range) /\ RowStep("UpdateIdRangeEnd", "ItemGroup", id)
    \/ ItemGroupsCreateNew /\ RowStep("CreateNew", "ItemGroup", NextId(item_groups))
    \/ \E id \in DOMAIN item_groups : ItemGroupsCancelEdit(id) /\ RowStep("CancelEdit", "ItemGroup", id)

NextTaxGroups ==
    \/ \E id \in DOMAIN tax_groups : TaxGroupsCopyTaxGroup(id) /\ RowStep("Copy", "TaxGroup", id)
    \/ \E id \in DOMAIN tax_groups : TaxGroupsEditTaxGroup(id) /\ RowStep("Edit", "TaxGroup", id)
    \/ \E id \in DOMAIN tax_groups : TaxGroupsSaveAll(id) /\ RowStep("SaveAll", "TaxGroup", id)
    \/ \E id \in DOMAIN tax_groups, new_name \in Names : TaxGroupsUpdateName(id, new_name) /\ RowStep("UpdateName", "TaxGroup", id)
    \/ \E id \in DOMAIN tax_groups, new_rate \in RateInputs : TaxGroupsUpdateTaxRate(id, new_rate) /\ RowStep("UpdateTaxRate", "TaxGroup", id)
    \/ TaxGroupsCreateNew /\ RowStep("CreateNew", "TaxGroup", NextId(tax_groups))
    \/ \E id \in DOMAIN tax_groups : TaxGroupsCancelEdit(id) /\ RowStep("CancelEdit", "TaxGroup", id)

NextSecurityLevels ==
    \/ \E id \in DOMAIN security_levels : SecurityLevelsCopySecurityLevel(id) /\ RowStep("Copy", "SecurityLevel", id)
    \/ \E id \in DOMAIN security_levels : SecurityLevelsEditSecurityLevel(id) /\ RowStep("Edit", "SecurityLevel", id)
    \/ \E id \in DOMAIN security_levels : SecurityLevelsSaveAll(id) /\ RowStep("SaveAll", "SecurityLevel", id)
    \/ \E id \in DOMAIN security_levels, new_name \in Names : SecurityLevelsUpdateName(id, new_name) /\ RowStep("UpdateName", "SecurityLevel", id)
    \/ SecurityLevelsCreateNew /\ RowStep("CreateNew", "SecurityLevel", NextId(security_levels))
    \/ \E id \in DOMAIN security_levels : SecurityLevelsCancelEdit(id) /\ RowStep("CancelEdit", "SecurityLevel", id)

NextRevenueCategories ==
    \/ \E id \in DOMAIN revenue_categories : RevenueCategoriesCopyRevenueCategory(id) /\ RowStep("Copy", "RevenueCategory", id)
    \/ \E id \in DOMAIN revenue_categories : RevenueCategoriesEditRevenueCategory(id) /\ RowStep("Edit", "RevenueCategory", id)
    \/ \E id \in DOMAIN revenue_categories : RevenueCategoriesSaveAll(id) /\ RowStep("SaveAll", "RevenueCategory", id)
    \/ \E id \in DOMAIN revenue_categories, new_name \in Names : RevenueCategoriesUpdateName(id, new_name) /\ RowStep("UpdateName", "RevenueCategory", id)
    \/ RevenueCategoriesCreateNew /\ RowStep("CreateNew", "RevenueCategory", NextId(revenue_categories))
    \/ \E id \in DOMAIN revenue_categories : RevenueCategoriesCancelEdit(id) /\ RowStep("CancelEdit", "RevenueCategory", id)

NextProductClasses ==
    \/ \E id \in DOMAIN product_classes : ProductClassesCopyProductClass(id) /\ RowStep("Copy", "ProductClass", id)
    \/ \E id \in DOMAIN product_classes : ProductClassesEditProductClass(id) /\ RowStep("Edit", "ProductClass", id)
    \/ \E id \in DOMAIN product_classes : ProductClassesSaveAll(id) /\ RowStep("SaveAll", "ProductClass", id)
    \/ \E id \in DOMAIN product_classes, new_name \in Names : ProductClassesUpdateName(id, new_name) /\ RowStep("UpdateName", "ProductClass", id)
    \/ ProductClassesCreateNew /\ RowStep("CreateNew", "ProductClass", NextId(product_classes))
    \/ \E id \in DOMAIN product_classes : ProductClassesCancelEdit(id) /\ RowStep("CancelEdit", "ProductClass", id)

NextPriceLevels ==
    \/ \E id \in DOMAIN price_levels : PriceLevelsCopyPriceLevel(id) /\ RowStep("Copy", "PriceLevel", id)
    \/ \E id \in DOMAIN price_levels : PriceLevelsEditPriceLevel(id) /\ RowStep("Edit", "PriceLevel", id)
    \/ \E id \in DOMAIN price_levels : PriceLevelsSaveAll(id) /\ RowStep("SaveAll", "PriceLevel", id)
    \/ \E id \in DOMAIN price_levels, new_name \in Names : PriceLevelsUpdateName(id, new_name) /\ RowStep("UpdateName", "PriceLevel", id)
    \/ PriceLevelsCreateNew /\ RowStep("CreateNew", "PriceLevel", NextId(price_levels))
    \/ \E id \in DOMAIN price_levels : PriceLevelsCancelEdit(id) /\ RowStep("CancelEdit", "PriceLevel", id)

NextRows ==
    \/ NavStep({"ItemGroups", "PriceLevels", "ProductClasses", "TaxGroups", "SecurityLevels", "RevenueCategories"})
    \/ NextItemGroups
    \/ NextTaxGroups
    \/ NextSecurityLevels
    \/ NextRevenueCategories
    \/ NextProductClasses
    \/ NextPriceLevels

SpecRows == InitRows /\ [][NextRows]_vars

\* C3: every committed entity's ID lies within its type's valid range.
C3_IdsInRange ==
    /\ \A id \in DOMAIN tax_groups : IdRangeIsValid("TaxGroup", id)
    /\ \A id \in DOMAIN security_levels : IdRangeIsValid("SecurityLevel", id)
    /\ \A id \in DOMAIN revenue_categories : IdRangeIsValid("RevenueCategory", id)
    /\ \A id \in DOMAIN report_categories : IdRangeIsValid("ReportCategory", id)
    /\ \A id \in DOMAIN product_classes : IdRangeIsValid("ProductClass", id)
    /\ \A id \in DOMAIN choice_groups : IdRangeIsValid("ChoiceGroup", id)
    /\ \A id \in DOMAIN printer_logicals : IdRangeIsValid("PrinterLogical", id)
    /\ \A id \in DOMAIN price_levels : IdRangeIsValid(PriceLevelRange(price_levels[id]), id)

\* C4: no two distinct committed ItemGroups have intersecting id_range
\* intervals.
C4_RangesDisjoint ==
    \A g1, g2 \in DOMAIN item_groups :
        g1 # g2 => ~RangesOverlap(item_groups[g1].id_range, item_groups[g2].id_range)

-----------------------------------------------------------------------------
(* Choice groups: choice_groups::update and Operation::ChoiceGroups *)

\* Text a user can type into the name and the ID field of the edit form.
NameInputs == {<< >>, <<" ">>, <<"a">>}
IdInputs == {<<"0">>, <<"1">>, <<"2">>, <<"x">>}

\* The id view() wraps every message of a draft-edited type in: the
\* selected ID, else the first key, else -1 (the empty state, which offers
\* CreateNew only).
MsgId(selected, map) ==
    IF selected # None THEN Unwrap(selected)
    ELSE IF DOMAIN map # {} THEN Min(DOMAIN map)
    ELSE -1

\* Message::<Type>(id, msg): the entity handed to update() is the draft for
\* a negative id or the draft's id, else the committed entity, which is
\* expected to exist.
TargetExists(id, draft_id, map) == id < 0 \/ draft_id = Some(id) \/ id \in DOMAIN map
Target(id, draft_id, draft, map) == IF id < 0 \/ draft_id = Some(id) THEN draft ELSE map[id]

ChoiceGroupsMsgId == MsgId(selected_choice_group_id, choice_groups)
ChoiceGroupsTarget == Target(ChoiceGroupsMsgId, draft_choice_group_id, draft_choice_group, choice_groups)

\* cloned_choice_groups.values().filter(|c| c.id != id)
OtherChoiceGroups(id) == {choice_groups[k] : k \in {k \in DOMAIN choice_groups : choice_groups[k].id # id}}

\* A validation that lets text that is not a number through.
EditStateValidateUnparsedOk(state, other_groups) ==
    IF Trim(state.name) = << >> THEN "EmptyName"
    ELSE IF ~ParseI32(state.id).ok THEN "Ok"
    ELSE IF ParseI32(state.id).val \notin 1..9999 THEN "InvalidId"
    ELSE IF \E other \in other_groups : ParseI32(state.id).val = other.id THEN "DuplicateId"
    ELSE "Ok"

\* choice_groups::edit::EditState::validate: the first failure, or "Ok".
EditStateValidate(state, other_groups) ==
    IF Trim(state.name) = << >> THEN "EmptyName"
    ELSE IF ~ParseI32(state.id).ok THEN "InvalidId"
    ELSE IF ParseI32(state.id).val \notin 1..9999 THEN "InvalidId"
    ELSE IF \E other \in other_groups : ParseI32(state.id).val = other.id THEN "DuplicateId"
    ELSE "Ok"

\* ChoiceGroup::validate: the first failure, or "Ok".
ChoiceGroupValidate(group, other_groups) ==
    IF group.id \notin 1..9999 THEN "InvalidId"
    ELSE IF \E other \in other_groups : other.id = group.id THEN "DuplicateId"
    ELSE IF Trim(group.name) = << >> THEN "EmptyName"
    ELSE "Ok"

\* The operation update() returns for edit::Message::Save.
SaveOperationAlways(state, other_groups) == "Save"
SaveOperation(state, other_groups) == IF EditStateValidate(state, other_groups) = "Ok" THEN "Save" ELSE "none"

\* save_state() fails or succeeds: the error message after a Save.
SaveStateResults == {None, Some("Failed to save")}

\* A Save that puts the collection back when the file cannot be written.
ChoiceGroupsSaveRollback(choice_group) ==
    /\ \E result \in SaveStateResults :
          /\ error_message' = result
          /\ choice_groups' = IF result # None THEN choice_groups
                              ELSE IF choice_group.id < 0
                                   THEN Insert(choice_groups, NextId(choice_groups), [choice_group EXCEPT !.id = NextId(choice_groups)])
                                   ELSE Insert(choice_groups, choice_group.id, choice_group)
    /\ IF choice_group.id < 0
       THEN /\ draft_choice_group_id' = None
            /\ draft_choice_group' = DefaultEntity
            /\ selected_choice_group_id' = Some(NextId(choice_groups))
       ELSE /\ selected_choice_group_id' = Some(choice_group.id)
            /\ UNCHANGED <<draft_choice_group_id, draft_choice_group>>
    /\ screen' = "ChoiceGroups(View)"
    /\ UNCHANGED <<choice_group_edit_state_vec, vModal, vItems, vItemGroups, vPriceLevels, vProductClasses, vTaxGroups, vSecurityLevels, vRevenueCategories, vReportCategories, vPrinterLogicals>>

\* Operation::ChoiceGroups(_, Save(choice_group))
ChoiceGroupsSave(choice_group) ==
    /\ IF choice_group.id < 0
       THEN /\ choice_groups' = Insert(choice_groups, NextId(choice_groups), [choice_group EXCEPT !.id = NextId(choice_groups)])
            /\ draft_choice_group_id' = None
            /\ draft_choice_group' = DefaultEntity
            /\ selected_choice_group_id' = Some(NextId(choice_groups))
       ELSE /\ choice_groups' = Insert(choice_groups, choice_group.id, choice_group)
            /\ selected_choice_group_id' = Some(choice_group.id)
            /\ UNCHANGED <<draft_choice_group_id, draft_choice_group>>
    /\ screen' = "ChoiceGroups(View)"
    /\ error_message' \in SaveStateResults
    /\ UNCHANGED <<choice_group_edit_state_vec, vModal, vItems, vItemGroups, vPriceLevels, vProductClasses, vTaxGroups, vSecurityLevels, vRevenueCategories, vReportCategories, vPrinterLogicals>>

\* An UpdateName that writes the name into the committed group instead.
ChoiceGroupsEditUpdateNameInPlace(name) ==
    /\ ~show_modal
    /\ TargetExists(ChoiceGroupsMsgId, draft_choice_group_id, choice_groups)
    /\ choice_groups' = IF ChoiceGroupsMsgId \in DOMAIN choice_groups THEN [choice_groups EXCEPT ![ChoiceGroupsMsgId].name = name] ELSE choice_groups
    /\ UNCHANGED <<screen, choice_group_edit_state, draft_choice_group, draft_choice_group_id, selected_choice_group_id, choice_group_edit_state_vec, exceptChoiceGroups>>

\* edit::Message::UpdateName(name)
ChoiceGroupsEditUpdateName(name) ==
    /\ ~show_modal
    /\ TargetExists(ChoiceGroupsMsgId, draft_choice_group_id, choice_groups)
    /\ choice_group_edit_state' = [choice_group_edit_state EXCEPT !.name = name, !.validation_error = None]
    /\ UNCHANGED <<screen, choice_groups, draft_choice_group, draft_choice_group_id, selected_choice_group_id, choice_group_edit_state_vec, exceptChoiceGroups>>

\* edit::Message::UpdateId(id)
ChoiceGroupsEditUpdateId(id) ==
    /\ ~show_modal
    /\ TargetExists(ChoiceGroupsMsgId, draft_choice_group_id, choice_groups)
    /\ choice_group_edit_state' = [choice_group_edit_state EXCEPT !.id = id, !.validation_error = None]
    /\ UNCHANGED <<screen, choice_groups, draft_choice_group, draft_choice_group_id, selected_choice_group_id, choice_group_edit_state_vec, exceptChoiceGroups>>

\* edit::Message::Save: validate the edit state; save the group, or attach
\* the error to the edit state.
ChoiceGroupsEditSave ==
    /\ ~show_modal
    /\ TargetExists(ChoiceGroupsMsgId, draft_choice_group_id, choice_groups)
    /\ IF SaveOperation(choice_group_edit_state, OtherChoiceGroups(ChoiceGroupsMsgId)) = "Save"
       THEN /\ ChoiceGroupsSave(ChoiceGroupsTarget)
            /\ UNCHANGED choice_group_edit_state
       ELSE /\ choice_group_edit_state' = [choice_group_edit_state EXCEPT !.validation_error = Some(EditStateValidate(choice_group_edit_state, OtherChoiceGroups(ChoiceGroupsMsgId)))]
            /\ UNCHANGED <<screen, choice_groups, draft_choice_group, draft_choice_group_id, selected_choice_group_id, choice_group_edit_state_vec, exceptChoiceGroups>>

\* edit::Message::Cancel -> Operation::Cancel
ChoiceGroupsCancel ==
    /\ ~show_modal
    /\ TargetExists(ChoiceGroupsMsgId, draft_choice_group_id, choice_groups)
    /\ draft_choice_group_id' = None
    /\ draft_choice_group' = IF draft_choice_group_id # None THEN DefaultEntity ELSE draft_choice_group
    /\ screen' = "ChoiceGroups(View)"
    /\ UNCHANGED <<choice_groups, selected_choice_group_id, choice_group_edit_state, choice_group_edit_state_vec, exceptChoiceGroups>>

\* view::Message::Edit -> Operation::StartEdit(group.id); indexing
\* self.choice_groups with an absent id panics.
ChoiceGroupsStartEdit ==
    /\ ~show_modal
    /\ TargetExists(ChoiceGroupsMsgId, draft_choice_group_id, choice_groups)
    /\ ChoiceGroupsTarget.id \in DOMAIN choice_groups
    /\ draft_choice_group_id' = Some(ChoiceGroupsTarget.id)
    /\ draft_choice_group' = choice_groups[ChoiceGroupsTarget.id]
    /\ screen' = "ChoiceGroups(Edit)"
    /\ UNCHANGED <<choice_groups, selected_choice_group_id, choice_group_edit_state, choice_group_edit_state_vec, exceptChoiceGroups>>

\* view::Message::Back -> Operation::Back
ChoiceGroupsBack ==
    /\ ~show_modal
    /\ TargetExists(ChoiceGroupsMsgId, draft_choice_group_id, choice_groups)
    /\ screen' = "Items(View)"
    /\ UNCHANGED <<vChoiceGroups, exceptChoiceGroups>>

\* The remaining choice-group messages reach perform() as the operation of
\* the same name.

\* Operation::CreateNew(choice_group), with ChoiceGroup::default()
ChoiceGroupsCreateNew ==
    /\ ~show_modal
    /\ TargetExists(ChoiceGroupsMsgId, draft_choice_group_id, choice_groups)
    /\ draft_choice_group' = [DefaultEntity EXCEPT !.id = NextId(choice_groups)]
    /\ draft_choice_group_id' = Some(-1)
    /\ selected_choice_group_id' = Some(-1)
    /\ screen' = "ChoiceGroups(Edit)"
    /\ UNCHANGED <<choice_groups, choice_group_edit_state, choice_group_edit_state_vec, exceptChoiceGroups>>

ChoiceGroupsCopyChoiceGroup(id) ==
    /\ ~show_modal
    /\ TargetExists(ChoiceGroupsMsgId, draft_choice_group_id, choice_groups)
    /\ id \in DOMAIN choice_groups
    /\ choice_groups' = CopyEntity(choice_groups, id)
    /\ draft_choice_group_id' = Some(NextId(choice_groups))
    /\ draft_choice_group' = CopyEntity(choice_groups, id)[NextId(choice_groups)]
    /\ selected_choice_group_id' = Some(NextId(choice_groups))
    /\ screen' = "ChoiceGroups(Edit)"
    /\ UNCHANGED <<choice_group_edit_state, choice_group_edit_state_vec, exceptChoiceGroups>>

ChoiceGroupsEditChoiceGroup(id) ==
    /\ ~show_modal
    /\ TargetExists(ChoiceGroupsMsgId, draft_choice_group_id, choice_groups)
    /\ choice_group_edit_state_vec' = IF id \in DOMAIN choice_groups
                                      THEN PushEditState(choice_group_edit_state_vec, choice_groups, id, RowEditState(choice_groups[id]))
                                      ELSE choice_group_edit_state_vec
    /\ screen' = "ChoiceGroups(View)"
    /\ UNCHANGED <<choice_groups, draft_choice_group, draft_choice_group_id, selected_choice_group_id, choice_group_edit_state, exceptChoiceGroups>>

ChoiceGroupsSelect(id) ==
    /\ ~show_modal
    /\ TargetExists(ChoiceGroupsMsgId, draft_choice_group_id, choice_groups)
    /\ selected_choice_group_id' = Some(id)
    /\ screen' = "ChoiceGroups(View)"
    /\ UNCHANGED <<choice_groups, draft_choice_group, draft_choice_group_id, choice_group_edit_state, choice_group_edit_state_vec, exceptChoiceGroups>>

ChoiceGroupsSaveAll(id) ==
    /\ ~show_modal
    /\ TargetExists(ChoiceGroupsMsgId, draft_choice_group_id, choice_groups)
    /\ choice_groups' = SaveName(choice_groups, choice_group_edit_state_vec, id)
    /\ choice_group_edit_state_vec' = DropEditState(choice_group_edit_state_vec, id)
    /\ screen' = "ChoiceGroups(View)"
    /\ UNCHANGED <<draft_choice_group, draft_choice_group_id, selected_choice_group_id, choice_group_edit_state, exceptChoiceGroups>>

ChoiceGroupsUpdateMultiName(id, new_name) ==
    /\ ~show_modal
    /\ TargetExists(ChoiceGroupsMsgId, draft_choice_group_id, choice_groups)
    /\ choice_group_edit_state_vec' = SetEditName(choice_group_edit_state_vec, id, new_name)
    /\ screen' = "ChoiceGroups(View)"
    /\ UNCHANGED <<choice_groups, draft_choice_group, draft_choice_group_id, selected_choice_group_id, choice_group_edit_state, exceptChoiceGroups>>

NewChoiceGroup == [id |-> NextId(choice_groups), name |-> << >>]

ChoiceGroupsCreateNewMulti ==
    /\ ~show_modal
    /\ TargetExists(ChoiceGroupsMsgId, draft_choice_group_id, choice_groups)
    /\ choice_groups' = Insert(choice_groups, NextId(choice_groups), NewChoiceGroup)
    /\ choice_group_edit_state_vec' = Append(choice_group_edit_state_vec, RowEditState(NewChoiceGroup))
    /\ UNCHANGED <<screen, draft_choice_group, draft_choice_group_id, selected_choice_group_id, choice_group_edit_state, exceptChoiceGroups>>

ChoiceGroupsCancelEdit(id) ==
    /\ ~show_modal
    /\ TargetExists(ChoiceGroupsMsgId, draft_choice_group_id, choice_groups)
    /\ choice_group_edit_state_vec' = DropEditState(choice_group_edit_state_vec, id)
    /\ screen' = "ChoiceGroups(View)"
    /\ UNCHANGED <<choice_groups, draft_choice_group, draft_choice_group_id, selected_choice_group_id, choice_group_edit_state, exceptChoiceGroups>>

-----------------------------------------------------------------------------
(* Report categories: Operation::ReportCategories *)

ReportCategoriesMsgId == MsgId(selected_report_category_id, report_categories)
ReportCategoriesTarget == Target(ReportCategoriesMsgId, draft_report_category_id, draft_report_category, report_categories)

\* Operation::Save(entity), with the entity update() was handed.
ReportCategoriesSave ==
    /\ ~show_modal
    /\ TargetExists(ReportCategoriesMsgId, draft_report_category_id, report_categories)
    /\ IF ReportCategoriesTarget.id < 0
       THEN /\ report_categories' = Insert(report_categories, NextId(report_categories), [ReportCategoriesTarget EXCEPT !.id = NextId(report_categories)])
            /\ draft_report_category_id' = None
            /\ draft_report_category' = DefaultEntity
            /\ selected_report_category_id' = Some(NextId(report_categories))
       ELSE /\ report_categories' = Insert(report_categories, ReportCategoriesTarget.id, ReportCategoriesTarget)
            /\ selected_report_category_id' = Some(ReportCategoriesTarget.id)
            /\ UNCHANGED <<draft_report_category_id, draft_report_category>>
    /\ screen' = "ReportCategories(View)"
    /\ error_message' \in SaveStateResults
    /\ UNCHANGED <<report_category_edit_state, report_category_edit_state_vec, vModal, vItems, vItemGroups, vPriceLevels, vProductClasses, vTaxGroups, vSecurityLevels, vRevenueCategories, vChoiceGroups, vPrinterLogicals>>

\* Operation::StartEdit(id), with the id of the entity update() was
\* handed; indexing the collection with an absent id panics.
ReportCategoriesStartEdit ==
    /\ ~show_modal
    /\ TargetExists(ReportCategoriesMsgId, draft_report_category_id, report_categories)
    /\ ReportCategoriesTarget.id \in DOMAIN report_categories
    /\ draft_report_category_id' = Some(ReportCategoriesTarget.id)
    /\ draft_report_category' = report_categories[ReportCategoriesTarget.id]
    /\ screen' = "ReportCategories(Edit)"
    /\ UNCHANGED <<error_message, report_categories, selected_report_category_id, report_category_edit_state, report_category_edit_state_vec, vModal, vItems, vItemGroups, vPriceLevels, vProductClasses, vTaxGroups, vSecurityLevels, vRevenueCategories, vChoiceGroups, vPrinterLogicals>>

ReportCategoriesCancel ==
    /\ ~show_modal
    /\ TargetExists(ReportCategoriesMsgId, draft_report_category_id, report_categories)
    /\ draft_report_category_id' = None
    /\ draft_report_category' = IF draft_report_category_id # None THEN DefaultEntity ELSE draft_report_category
    /\ screen' = "ReportCategories(View)"
    /\ UNCHANGED <<error_message, report_categories, selected_report_category_id, report_category_edit_state, report_category_edit_state_vec, vModal, vItems, vItemGroups, vPriceLevels, vProductClasses, vTaxGroups, vSecurityLevels, vRevenueCategories, vChoiceGroups, vPrinterLogicals>>

ReportCategoriesBack ==
    /\ ~show_modal
    /\ TargetExists(ReportCategoriesMsgId, draft_report_category_id, report_categories)
    /\ screen' = "ReportCategories(View)"
    /\ UNCHANGED <<error_message, vReportCategories, vModal, vItems, vItemGroups, vPriceLevels, vProductClasses, vTaxGroups, vSecurityLevels, vRevenueCategories, vChoiceGroups, vPrinterLogicals>>

ReportCategoriesCreateNew ==
    /\ ~show_modal
    /\ TargetExists(ReportCategoriesMsgId, draft_report_category_id, report_categories)
    /\ draft_report_category' = [DefaultEntity EXCEPT !.id = NextId(report_categories)]
    /\ draft_report_category_id' = Some(-1)
    /\ selected_report_category_id' = Some(-1)
    /\ screen' = "ReportCategories(Edit)"
    /\ UNCHANGED <<error_message, report_categories, report_category_edit_state, report_category_edit_state_vec, vModal, vItems, vItemGroups, vPriceLevels, vProductClasses, vTaxGroups, vSecurityLevels, vRevenueCategories, vChoiceGroups, vPrinterLogicals>>

ReportCategoriesCopyReportCategory(id) ==
    /\ ~show_modal
    /\ TargetExists(ReportCategoriesMsgId, draft_report_category_id, report_categories)
    /\ id \in DOMAIN report_categories
    /\ report_categories' = CopyEntity(report_categories, id)
    /\ draft_report_category_id' = Some(NextId(report_categories))
    /\ draft_report_category' = CopyEntity(report_categories, id)[NextId(report_categories)]
    /\ selected_report_category_id' = Some(NextId(report_categories))
    /\ screen' = "ReportCategories(Edit)"
    /\ UNCHANGED <<error_message, report_category_edit_state, report_category_edit_state_vec, vModal, vItems, vItemGroups, vPriceLevels, vProductClasses, vTaxGroups, vSecurityLevels, vRevenueCategories, vChoiceGroups, vPrinterLogicals>>

ReportCategoriesEditReportCategory(id) ==
    /\ ~show_modal
    /\ TargetExists(ReportCategoriesMsgId, draft_report_category_id, report_categories)
    /\ report_category_edit_state_vec' = IF id \in DOMAIN report_categories
                                         THEN PushEditState(report_category_edit_state_vec, report_categories, id, RowEditState(report_categories[id]))
                                         ELSE report_category_edit_state_vec
    /\ screen' = "ReportCategories(Edit)"
    /\ UNCHANGED <<error_message, report_categories, draft_report_category, draft_report_category_id, selected_report_category_id, report_category_edit_state, vModal, vItems, vItemGroups, vPriceLevels, vProductClasses, vTaxGroups, vSecurityLevels, vRevenueCategories, vChoiceGroups, vPrinterLogicals>>

ReportCategoriesSelect(id) ==
    /\ ~show_modal
    /\ TargetExists(ReportCategoriesMsgId, draft_report_category_id, report_categories)
    /\ selected_report_category_id' = Some(id)
    /\ screen' = "ReportCategories(View)"
    /\ UNCHANGED <<error_message, report_categories, draft_report_category, draft_report_category_id, report_category_edit_state, report_category_edit_state_vec, vModal, vItems, vItemGroups, vPriceLevels, vProductClasses, vTaxGroups, vSecurityLevels, vRevenueCategories, vChoiceGroups, vPrinterLogicals>>

ReportCategoriesSaveAll(id) ==
    /\ ~show_modal
    /\ TargetExists(ReportCategoriesMsgId, draft_report_category_id, report_categories)
    /\ report_categories' = SaveName(report_categories, report_category_edit_state_vec, id)
    /\ report_category_edit_state_vec' = DropEditState(report_category_edit_state_vec, id)
    /\ screen' = "ReportCategories(Edit)"
    /\ UNCHANGED <<error_message, draft_report_category, draft_report_category_id, selected_report_category_id, report_category_edit_state, vModal, vItems, vItemGroups, vPriceLevels, vProductClasses, vTaxGroups, vSecurityLevels, vRevenueCategories, vChoiceGroups, vPrinterLogicals>>

ReportCategoriesUpdateMultiName(id, new_name) ==
    /\ ~show_modal
    /\ TargetExists(ReportCategoriesMsgId, draft_report_category_id, report_categories)
    /\ report_category_edit_state_vec' = SetEditName(report_category_edit_state_vec, id, new_name)
    /\ screen' = "ReportCategories(Edit)"
    /\ UNCHANGED <<error_message, report_categories, draft_report_category, draft_report_category_id, selected_report_category_id, report_category_edit_state, vModal, vItems, vItemGroups, vPriceLevels, vProductClasses, vTaxGroups, vSecurityLevels, vRevenueCategories, vChoiceGroups, vPrinterLogicals>>

ReportCategoriesCreateNewMulti ==
    /\ ~show_modal
    /\ TargetExists(ReportCategoriesMsgId, draft_report_category_id, report_categories)
    /\ report_categories' = Insert(report_categories, NextId(report_categories), [id |-> NextId(report_categories), name |-> << >>])
    /\ report_category_edit_state_vec' = Append(report_category_edit_state_vec, RowEditState([id |-> NextId(report_categories), name |-> << >>]))
    /\ UNCHANGED <<screen, error_message, draft_report_category, draft_report_category_id, selected_report_category_id, report_category_edit_state, vModal, vItems, vItemGroups, vPriceLevels, vProductClasses, vTaxGroups, vSecurityLevels, vRevenueCategories, vChoiceGroups, vPrinterLogicals>>

ReportCategoriesCancelEdit(id) ==
    /\ ~show_modal
    /\ TargetExists(ReportCategoriesMsgId, draft_report_category_id, report_categories)
    /\ report_category_edit_state_vec' = DropEditState(report_category_edit_state_vec, id)
    /\ screen' = "ReportCategories(Edit)"
    /\ UNCHANGED <<error_message, report_categories, draft_report_category, draft_report_category_id, selected_report_category_id, report_category_edit_state, vModal, vItems, vItemGroups, vPriceLevels, vProductClasses, vTaxGroups, vSecurityLevels, vRevenueCategories, vChoiceGroups, vPrinterLogicals>>

-----------------------------------------------------------------------------
(* Printer logicals: Operation::PrinterLogicals *)

PrinterLogicalsMsgId == MsgId(selected_printer_id, printer_logicals)
PrinterLogicalsTarget == Target(PrinterLogicalsMsgId, draft_printer_id, draft_printer, printer_logicals)

\* Operation::Save(entity), with the entity update() was handed.
PrinterLogicalsSave ==
    /\ ~show_modal
    /\ TargetExists(PrinterLogicalsMsgId, draft_printer_id, printer_logicals)
    /\ IF PrinterLogicalsTarget.id < 0
       THEN /\ printer_logicals' = Insert(printer_logicals, NextId(printer_logicals), [PrinterLogicalsTarget EXCEPT !.id = NextId(printer_logicals)])
            /\ draft_printer_id' = None
            /\ draft_printer' = DefaultEntity
            /\ selected_printer_id' = Some(NextId(printer_logicals))
       ELSE /\ printer_logicals' = Insert(printer_logicals, PrinterLogicalsTarget.id, PrinterLogicalsTarget)
            /\ selected_printer_id' = Some(PrinterLogicalsTarget.id)
            /\ UNCHANGED <<draft_printer_id, draft_printer>>
    /\ screen' = "PrinterLogicals(View)"
    /\ error_message' \in SaveStateResults
    /\ UNCHANGED <<printer_edit_state, printer_logical_edit_state_vec, vModal, vItems, vItemGroups, vPriceLevels, vProductClasses, vTaxGroups, vSecurityLevels, vRevenueCategories, vReportCategories, vChoiceGroups>>

\* Operation::StartEdit(id), with the id of the entity update() was
\* handed; indexing the collection with an absent id panics.
PrinterLogicalsStartEdit ==
    /\ ~show_modal
    /\ TargetExists(PrinterLogicalsMsgId, draft_printer_id, printer_logicals)
    /\ PrinterLogicalsTarget.id \in DOMAIN printer_logicals
    /\ draft_printer_id' = Some(PrinterLogicalsTarget.id)
    /\ draft_printer' = printer_logicals[PrinterLogicalsTarget.id]
    /\ screen' = "PrinterLogicals(Edit)"
    /\ UNCHANGED <<error_message, printer_logicals, selected_printer_id, printer_edit_state, printer_logical_edit_state_vec, vModal, vItems, vItemGroups, vPriceLevels, vProductClasses, vTaxGroups, vSecurityLevels, vRevenueCategories, vReportCategories, vChoiceGroups>>

PrinterLogicalsCancel ==
    /\ ~show_modal
    /\ TargetExists(PrinterLogicalsMsgId, draft_printer_id, printer_logicals)
    /\ draft_printer_id' = None
    /\ draft_printer' = IF draft_printer_id # None THEN DefaultEntity ELSE draft_printer
    /\ screen' = "PrinterLogicals(View)"
    /\ UNCHANGED <<error_message, printer_logicals, selected_printer_id, printer_edit_state, printer_logical_edit_state_vec, vModal, vItems, vItemGroups, vPriceLevels, vProductClasses, vTaxGroups, vSecurityLevels, vRevenueCategories, vReportCategories, vChoiceGroups>>

PrinterLogicalsBack ==
    /\ ~show_modal
    /\ TargetExists(PrinterLogicalsMsgId, draft_printer_id, printer_logicals)
    /\ screen' = "PrinterLogicals(View)"
    /\ UNCHANGED <<error_message, vPrinterLogicals, vModal, vItems, vItemGroups, vPriceLevels, vProductClasses, vTaxGroups, vSecurityLevels, vRevenueCategories, vReportCategories, vChoiceGroups>>

PrinterLogicalsCreateNew ==
    /\ ~show_modal
    /\ TargetExists(PrinterLogicalsMsgId, draft_printer_id, printer_logicals)
    /\ draft_printer' = [DefaultEntity EXCEPT !.id = NextId(printer_logicals)]
    /\ draft_printer_id' = Some(NextId(printer_logicals))
    /\ selected_printer_id' = Some(NextId(printer_logicals))
    /\ screen' = "PrinterLogicals(Edit)"
    /\ UNCHANGED <<error_message, printer_logicals, printer_edit_state, printer_logical_edit_state_vec, vModal, vItems, vItemGroups, vPriceLevels, vProductClasses, vTaxGroups, vSecurityLevels, vRevenueCategories, vReportCategories, vChoiceGroups>>

PrinterLogicalsCopyPrinterLogical(id) ==
    /\ ~show_modal
    /\ TargetExists(PrinterLogicalsMsgId, draft_printer_id, printer_logicals)
    /\ id \in DOMAIN printer_logicals
    /\ printer_logicals' = CopyEntity(printer_logicals, id)
    /\ draft_printer_id' = Some(NextId(printer_logicals))
    /\ draft_printer' = CopyEntity(printer_logicals, id)[NextId(printer_logicals)]
    /\ selected_printer_id' = Some(NextId(printer_logicals))
    /\ screen' = "PrinterLogicals(Edit)"
    /\ UNCHANGED <<error_message, printer_edit_state, printer_logical_edit_state_vec, vModal, vItems, vItemGroups, vPriceLevels, vProductClasses, vTaxGroups, vSecurityLevels, vRevenueCategories, vReportCategories, vChoiceGroups>>

PrinterLogicalsEditPrinterLogical(id) ==
    /\ ~show_modal
    /\ TargetExists(PrinterLogicalsMsgId, draft_printer_id, printer_logicals)
    /\ printer_logical_edit_state_vec' = IF id \in DOMAIN printer_logicals
                                      THEN PushEditState(printer_logical_edit_state_vec, printer_logicals, id, RowEditState(printer_logicals[id]))
                                      ELSE printer_logical_edit_state_vec
    /\ screen' = "PrinterLogicals(View)"
    /\ UNCHANGED <<error_message, printer_logicals, draft_printer, draft_printer_id, selected_printer_id, printer_edit_state, vModal, vItems, vItemGroups, vPriceLevels, vProductClasses, vTaxGroups, vSecurityLevels, vRevenueCategories, vReportCategories, vChoiceGroups>>

PrinterLogicalsSelect(id) ==
    /\ ~show_modal
    /\ TargetExists(PrinterLogicalsMsgId, draft_printer_id, printer_logicals)
    /\ selected_printer_id' = Some(id)
    /\ screen' = "PrinterLogicals(View)"
    /\ UNCHANGED <<error_message, printer_logicals, draft_printer, draft_printer_id, printer_edit_state, printer_logical_edit_state_vec, vModal, vItems, vItemGroups, vPriceLevels, vProductClasses, vTaxGroups, vSecurityLevels, vRevenueCategories, vReportCategories, vChoiceGroups>>

PrinterLogicalsSaveMultiTest(id) ==
    /\ ~show_modal
    /\ TargetExists(PrinterLogicalsMsgId, draft_printer_id, printer_logicals)
    /\ printer_logicals' = SaveName(printer_logicals, printer_logical_edit_state_vec, id)
    /\ printer_logical_edit_state_vec' = DropEditState(printer_logical_edit_state_vec, id)
    /\ screen' = "PrinterLogicals(View)"
    /\ UNCHANGED <<error_message, draft_printer, draft_printer_id, selected_printer_id, printer_edit_state, vModal, vItems, vItemGroups, vPriceLevels, vProductClasses, vTaxGroups, vSecurityLevels, vRevenueCategories, vReportCategories, vChoiceGroups>>

\* A name of 17 bytes or more is refused with a name validation error.
PrinterLogicalsUpdateMultiName(id, new_name) ==
    /\ ~show_modal
    /\ TargetExists(PrinterLogicalsMsgId, draft_printer_id, printer_logicals)
    /\ printer_logical_edit_state_vec' = IF ~AlreadyEditing(printer_logical_edit_state_vec, id) THEN printer_logical_edit_state_vec
                                      ELSE IF Len(new_name) < 17 THEN SetEditName(printer_logical_edit_state_vec, id, new_name)
                                      ELSE [printer_logical_edit_state_vec EXCEPT ![FindEditState(printer_logical_edit_state_vec, id)].name_validation_error = Some("Can't have more than 16 characters")]
    /\ screen' = "PrinterLogicals(View)"
    /\ UNCHANGED <<error_message, printer_logicals, draft_printer, draft_printer_id, selected_printer_id, printer_edit_state, vModal, vItems, vItemGroups, vPriceLevels, vProductClasses, vTaxGroups, vSecurityLevels, vRevenueCategories, vReportCategories, vChoiceGroups>>

PrinterLogicalsCreateNewMulti ==
    /\ ~show_modal
    /\ TargetExists(PrinterLogicalsMsgId, draft_printer_id, printer_logicals)
    /\ printer_logicals' = Insert(printer_logicals, NextId(printer_logicals), [id |-> NextId(printer_logicals), name |-> << >>])
    /\ printer_logical_edit_state_vec' = Append(printer_logical_edit_state_vec, RowEditState([id |-> NextId(printer_logicals), name |-> << >>]))
    /\ UNCHANGED <<screen, error_message, draft_printer, draft_printer_id, selected_printer_id, printer_edit_state, vModal, vItems, vItemGroups, vPriceLevels, vProductClasses, vTaxGroups, vSecurityLevels, vRevenueCategories, vReportCategories, vChoiceGroups>>

PrinterLogicalsCancelEdit(id) ==
    /\ ~show_modal
    /\ TargetExists(PrinterLogicalsMsgId, draft_printer_id, printer_logicals)
    /\ printer_logical_edit_state_vec' = DropEditState(printer_logical_edit_state_vec, id)
    /\ screen' = "PrinterLogicals(View)"
    /\ UNCHANGED <<error_message, printer_logicals, draft_printer, draft_printer_id, selected_printer_id, printer_edit_state, vModal, vItems, vItemGroups, vPriceLevels, vProductClasses, vTaxGroups, vSecurityLevels, vRevenueCategories, vReportCategories, vChoiceGroups>>

-----------------------------------------------------------------------------
(* Items: Operation::Items *)

ItemsMsgId == MsgId(selected_item_id, items)
ItemsTarget == Target(ItemsMsgId, draft_item_id, draft_item, items)

\* items::EditState::new(item, ...): the price texts start from the prices
\* the item holds.
ItemEditStateNew(item) ==
    [prices |-> IF item.item_prices = None THEN None
                ELSE Some([k \in DOMAIN Unwrap(item.item_prices) |-> [price_level_id |-> Unwrap(item.item_prices)[k].price_level_id, price |-> DecimalToString(Unwrap(item.item_prices)[k].price)]])]

\* The prices Save copies from the edit state into the item: a text that
\* is not a decimal becomes Decimal::new(0, 2).
ItemPricesOf(state) ==
    LET prices == IF state.prices = None THEN << >> ELSE Unwrap(state.prices)
    IN Some([k \in DOMAIN prices |-> [price_level_id |-> prices[k].price_level_id, price |-> IF StringToDecimal(prices[k].price).ok THEN StringToDecimal(prices[k].price).val ELSE 0]])

\* Operation::Save(item), with the item update() was handed.  With
\* settings.auto_save a failed first write shows the settings screen.
ItemsSave ==
    /\ ~show_modal
    /\ TargetExists(ItemsMsgId, draft_item_id, items)
    /\ LET item == [ItemsTarget EXCEPT !.item_prices = ItemPricesOf(item_edit_state)]
       IN IF item.id < 0
          THEN /\ items' = Insert(items, NextId(items), [item EXCEPT !.id = NextId(items)])
               /\ draft_item_id' = None
               /\ draft_item' = DefaultItem
               /\ selected_item_id' = Some(NextId(items))
          ELSE /\ items' = Insert(items, item.id, item)
               /\ selected_item_id' = Some(item.id)
               /\ UNCHANGED <<draft_item_id, draft_item>>
    /\ \E auto_save \in BOOLEAN, first \in SaveStateResults :
           screen' = IF auto_save /\ first # None THEN "Settings" ELSE "Items(View)"
    /\ error_message' \in SaveStateResults
    /\ UNCHANGED <<item_edit_state, vModal, vItemGroups, vPriceLevels, vProductClasses, vTaxGroups, vSecurityLevels, vRevenueCategories, vReportCategories, vChoiceGroups, vPrinterLogicals>>

\* Operation::StartEdit(id); indexing self.items with an absent id panics.
ItemsStartEdit ==
    /\ ~show_modal
    /\ TargetExists(ItemsMsgId, draft_item_id, items)
    /\ ItemsTarget.id \in DOMAIN items
    /\ draft_item_id' = Some(ItemsTarget.id)
    /\ draft_item' = items[ItemsTarget.id]
    /\ item_edit_state' = ItemEditStateNew(items[ItemsTarget.id])
    /\ screen' = "Items(Edit)"
    /\ UNCHANGED <<items, selected_item_id, exceptItems>>

ItemsCancel ==
    /\ ~show_modal
    /\ TargetExists(ItemsMsgId, draft_item_id, items)
    /\ draft_item_id' = None
    /\ draft_item' = IF draft_item_id # None THEN DefaultItem ELSE draft_item
    /\ screen' = "Items(View)"
    /\ UNCHANGED <<items, selected_item_id, item_edit_state, exceptItems>>

ItemsBack ==
    /\ ~show_modal
    /\ TargetExists(ItemsMsgId, draft_item_id, items)
    /\ screen' = "Items(View)"
    /\ UNCHANGED <<vItems, exceptItems>>

ItemsCreateNew ==
    /\ ~show_modal
    /\ TargetExists(ItemsMsgId, draft_item_id, items)
    /\ draft_item' = [DefaultItem EXCEPT !.id = NextId(items)]
    /\ draft_item_id' = Some(-1)
    /\ selected_item_id' = Some(-1)
    /\ screen' = "Items(Edit)"
    /\ UNCHANGED <<items, item_edit_state, exceptItems>>

ItemsSelect(id) ==
    /\ ~show_modal
    /\ TargetExists(ItemsMsgId, draft_item_id, items)
    /\ selected_item_id' = Some(id)
    /\ screen' = "Items(View)"
    /\ UNCHANGED <<items, draft_item, draft_item_id, item_edit_state, exceptItems>>

ItemsCopyItem(id) ==
    /\ ~show_modal
    /\ TargetExists(ItemsMsgId, draft_item_id, items)
    /\ id \in DOMAIN items
    /\ items' = CopyEntity(items, id)
    /\ draft_item_id' = Some(NextId(items))
    /\ draft_item' = CopyEntity(items, id)[NextId(items)]
    /\ selected_item_id' = Some(NextId(items))
    /\ screen' = "Items(Edit)"
    /\ UNCHANGED <<item_edit_state, exceptItems>>

\* Operation::UpdatePrice(_, price_level_id, item_price): replace the text
\* kept for the price level, or add one.
ItemsUpdatePrice(price_level_id, item_price) ==
    /\ ~show_modal
    /\ TargetExists(ItemsMsgId, draft_item_id, items)
    /\ item_edit_state' =
           IF item_edit_state.prices = None
           THEN [prices |-> Some(<<[price_level_id |-> price_level_id, price |-> item_price]>>)]
           ELSE LET prices == Unwrap(item_edit_state.prices)
                    found == {k \in DOMAIN prices : prices[k].price_level_id = price_level_id}
                IN IF found # {}
                   THEN [prices |-> Some([prices EXCEPT ![Min(found)].price = item_price])]
                   ELSE [prices |-> Some(Append(prices, [price_level_id |-> price_level_id, price |-> item_price]))]
    /\ UNCHANGED <<screen, items, draft_item, draft_item_id, selected_item_id, exceptItems>>

-----------------------------------------------------------------------------
(* The choice-group screen over a small data file *)

\* A data file with choice groups 1..n, none referenced.
ChoiceGroupsFile(n) == [EmptyFile EXCEPT !.choice_groups = [i \in 1..n |-> StoredEntity(i)]]

InitChoiceGroups == \E n \in 0..MaxId : InitWith(ChoiceGroupsFile(n), MaxFormSteps)

\* The choice-group list is on screen: rows and the edit form send messages.
ChoiceGroupsListed == Listed("ChoiceGroup", selected_choice_group_id, choice_groups)

NextChoiceGroups ==
    \/ \E name \in NameInputs : ChoiceGroupsListed /\ ChoiceGroupsEditUpdateName(name) /\ Step("Edit.UpdateName", "ChoiceGroup", ChoiceGroupsMsgId, "none")
    \/ \E id \in IdInputs : ChoiceGroupsListed /\ ChoiceGroupsEditUpdateId(id) /\ Step("Edit.UpdateId", "ChoiceGroup", ChoiceGroupsMsgId, "none")
    \/ ChoiceGroupsListed /\ ChoiceGroupsEditSave /\ Step("Edit.Save", "ChoiceGroup", ChoiceGroupsMsgId, SaveOperation(choice_group_edit_state, OtherChoiceGroups(ChoiceGroupsMsgId)))
    \/ ChoiceGroupsListed /\ ChoiceGroupsCancel /\ Step("Edit.Cancel", "ChoiceGroup", ChoiceGroupsMsgId, "Cancel")
    \/ ChoiceGroupsListed /\ ChoiceGroupsStartEdit /\ Step("View.Edit", "ChoiceGroup", ChoiceGroupsMsgId, "StartEdit")
    \/ ChoiceGroupsListed /\ ChoiceGroupsBack /\ Step("View.Back", "ChoiceGroup", ChoiceGroupsMsgId, "Back")
    \/ Shows("ChoiceGroup") /\ ChoiceGroupsCreateNew /\ Step("CreateNew", "ChoiceGroup", ChoiceGroupsMsgId, "CreateNew")
    \/ \E id \in DOMAIN choice_groups : ChoiceGroupsListed /\ ChoiceGroupsCopyChoiceGroup(id) /\ Step("CopyChoiceGroup", "ChoiceGroup", id, "CopyChoiceGroup")
    \/ \E id \in DOMAIN choice_groups : ChoiceGroupsListed /\ ChoiceGroupsEditChoiceGroup(id) /\ Step("EditChoiceGroup", "ChoiceGroup", id, "EditChoiceGroup")
    \/ \E id \in DOMAIN choice_groups : ChoiceGroupsListed /\ ChoiceGroupsSelect(id) /\ Step("Select", "ChoiceGroup", id, "Select")
    \/ \E id \in DOMAIN choice_groups : ChoiceGroupsListed /\ ChoiceGroupsSaveAll(id) /\ Step("SaveAll", "ChoiceGroup", id, "SaveAll")
    \/ \E id \in DOMAIN choice_groups, new_name \in Names : ChoiceGroupsListed /\ ChoiceGroupsUpdateMultiName(id, new_name) /\ Step("UpdateMultiName", "ChoiceGroup", id, "UpdateMultiName")
    \/ ChoiceGroupsListed /\ ChoiceGroupsCreateNewMulti /\ Step("CreateNewMulti", "ChoiceGroup", NextId(choice_groups), "CreateNewMulti")
    \/ \E id \in DOMAIN choice_groups : ChoiceGroupsListed /\ ChoiceGroupsCancelEdit(id) /\ Step("CancelEdit", "ChoiceGroup", id, "CancelEdit")

SpecChoiceGroups == InitChoiceGroups /\ [][NavStep({"Items(View)", "ChoiceGroups(View)"}) \/ NextChoiceGroups]_vars

\* The step handles edit::Message::Save of the choice-group form.
IsEditSave == last'.msg = "Edit.Save" /\ last'.type = "ChoiceGroup"

\* The ID typed into the form, if it is a number.
TypedId == ParseI32(choice_group_edit_state.id)

\* C9: a Save that fails validation leaves all ten collections as they
\* were, emits no Operation::Save, and leaves the draft in place.
C9_FailedSaveChangesNothing ==
    [][(IsEditSave /\ EditStateValidate(choice_group_edit_state, OtherChoiceGroups(ChoiceGroupsMsgId)) # "Ok") =>
        /\ collections' = collections
        /\ last'.op # "Save"
        /\ draft_choice_group' = draft_choice_group
        /\ draft_choice_group_id' = draft_choice_group_id]_vars

\* A new draft was saved with the ID of a committed group: the Save failed
\* and the draft is still there.
C9_Witness ==
    /\ last.msg = "Edit.Save"
    /\ last.op = "none"
    /\ draft_choice_group_id = Some(-1)
    /\ choice_group_edit_state.validation_error = Some("DuplicateId")
    /\ choice_groups = snap.choice_groups

\* C10: a Save under the ID of another committed entity of the collection
\* fails with DuplicateId and leaves the collection unchanged; a Save under
\* the entity's own ID is not reported as a duplicate.
C10_DuplicateIdRejected ==
    [][IsEditSave /\ TypedId.ok =>
        /\ (\E other \in OtherChoiceGroups(ChoiceGroupsMsgId) : other.id = TypedId.val) =>
            /\ choice_group_edit_state'.validation_error = Some("DuplicateId")
            /\ choice_groups' = choice_groups
        /\ (TypedId.val = ChoiceGroupsMsgId /\ ChoiceGroupsMsgId \in DOMAIN choice_groups) =>
            choice_group_edit_state'.validation_error # Some("DuplicateId")]_vars

-----------------------------------------------------------------------------
(* The whole application over a loaded data file *)

\* A printer name of 17 characters, one more than UpdateMultiName accepts.
LongName == [k \in 1..17 |-> "a"]

NextReportCategories ==
    \/ Listed("ReportCategory", selected_report_category_id, report_categories) /\ ReportCategoriesSave /\ Step("Save", "ReportCategory", ReportCategoriesMsgId, "Save")
    \/ Listed("ReportCategory", selected_report_category_id, report_categories) /\ ReportCategoriesStartEdit /\ Step("StartEdit", "ReportCategory", ReportCategoriesMsgId, "StartEdit")
    \/ Listed("ReportCategory", selected_report_category_id, report_categories) /\ ReportCategoriesCancel /\ Step("Cancel", "ReportCategory", ReportCategoriesMsgId, "Cancel")
    \/ Listed("ReportCategory", selected_report_category_id, report_categories) /\ ReportCategoriesBack /\ Step("Back", "ReportCategory", ReportCategoriesMsgId, "Back")
    \/ Shows("ReportCategory") /\ ReportCategoriesCreateNew /\ Step("CreateNew", "ReportCategory", ReportCategoriesMsgId, "CreateNew")
    \/ \E id \in DOMAIN report_categories : Listed("ReportCategory", selected_report_category_id, report_categories) /\ ReportCategoriesCopyReportCategory(id) /\ Step("Copy", "ReportCategory", id, "CopyReportCategory")
    \/ \E id \in DOMAIN report_categories : Listed("ReportCategory", selected_report_category_id, report_categories) /\ ReportCategoriesEditReportCategory(id) /\ Step("Edit", "ReportCategory", id, "EditReportCategory")
    \/ \E id \in DOMAIN report_categories : Listed("ReportCategory", selected_report_category_id, report_categories) /\ ReportCategoriesSelect(id) /\ Step("Select", "ReportCategory", id, "Select")
    \/ \E id \in DOMAIN report_categories : Listed("ReportCategory", selected_report_category_id, report_categories) /\ ReportCategoriesSaveAll(id) /\ Step("SaveAll", "ReportCategory", id, "SaveAll")
    \/ \E id \in DOMAIN report_categories, new_name \in Names : Listed("ReportCategory", selected_report_category_id, report_categories) /\ ReportCategoriesUpdateMultiName(id, new_name) /\ Step("UpdateMultiName", "ReportCategory", id, "UpdateMultiName")
    \/ Listed("ReportCategory", selected_report_category_id, report_categories) /\ ReportCategoriesCreateNewMulti /\ Step("CreateNewMulti", "ReportCategory", NextId(report_categories), "CreateNewMulti")
    \/ \E id \in DOMAIN report_categories : Listed("ReportCategory", selected_report_category_id, report_categories) /\ ReportCategoriesCancelEdit(id) /\ Step("CancelEdit", "ReportCategory", id, "CancelEdit")

NextPrinterLogicals ==
    \/ Listed("PrinterLogical", selected_printer_id, printer_logicals) /\ PrinterLogicalsSave /\ Step("Save", "PrinterLogical", PrinterLogicalsMsgId, "Save")
    \/ Listed("PrinterLogical", selected_printer_id, printer_logicals) /\ PrinterLogicalsStartEdit /\ Step("StartEdit", "PrinterLogical", PrinterLogicalsMsgId, "StartEdit")
    \/ Listed("PrinterLogical", selected_printer_id, printer_logicals) /\ PrinterLogicalsCancel /\ Step("Cancel", "PrinterLogical", PrinterLogicalsMsgId, "Cancel")
    \/ Listed("PrinterLogical", selected_printer_id, printer_logicals) /\ PrinterLogicalsBack /\ Step("Back", "PrinterLogical", PrinterLogicalsMsgId, "Back")
    \/ Shows("PrinterLogical") /\ PrinterLogicalsCreateNew /\ Step("CreateNew", "PrinterLogical", PrinterLogicalsMsgId, "CreateNew")
    \/ \E id \in DOMAIN printer_logicals : Listed("PrinterLogical", selected_printer_id, printer_logicals) /\ PrinterLogicalsCopyPrinterLogical(id) /\ Step("Copy", "PrinterLogical", id, "CopyPrinterLogical")
    \/ \E id \in DOMAIN printer_logicals : Listed("PrinterLogical", selected_printer_id, printer_logicals) /\ PrinterLogicalsEditPrinterLogical(id) /\ Step("Edit", "PrinterLogical", id, "EditPrinterLogical")
    \/ \E id \in DOMAIN printer_logicals : Listed("PrinterLogical", selected_printer_id, printer_logicals) /\ PrinterLogicalsSelect(id) /\ Step("Select", "PrinterLogical", id, "Select")
    \/ \E id \in DOMAIN printer_logicals : Listed("PrinterLogical", selected_printer_id, printer_logicals) /\ PrinterLogicalsSaveMultiTest(id) /\ Step("SaveMultiTest", "PrinterLogical", id, "SaveMultiTest")
    \/ \E id \in DOMAIN printer_logicals, new_name \in Names \cup {LongName} : Listed("PrinterLogical", selected_printer_id, printer_logicals) /\ PrinterLogicalsUpdateMultiName(id, new_name) /\ Step("UpdateMultiName", "PrinterLogical", id, "UpdateMultiName")
    \/ Listed("PrinterLogical", selected_printer_id, printer_logicals) /\ PrinterLogicalsCreateNewMulti /\ Step("CreateNewMulti", "PrinterLogical", NextId(printer_logicals), "CreateNewMulti")
    \/ \E id \in DOMAIN printer_logicals : Listed("PrinterLogical", selected_printer_id, printer_logicals) /\ PrinterLogicalsCancelEdit(id) /\ Step("CancelEdit", "PrinterLogical", id, "CancelEdit")

NextItems ==
    \/ Listed("Item", selected_item_id, items) /\ ItemsSave /\ Step("Save", "Item", ItemsMsgId, "Save")
    \/ Listed("Item", selected_item_id, items) /\ ItemsStartEdit /\ Step("StartEdit", "Item", ItemsMsgId, "StartEdit")
    \/ Listed("Item", selected_item_id, items) /\ ItemsCancel /\ Step("Cancel", "Item", ItemsMsgId, "Cancel")
    \/ Listed("Item", selected_item_id, items) /\ ItemsBack /\ Step("Back", "Item", ItemsMsgId, "Back")
    \/ Shows("Item") /\ ItemsCreateNew /\ Step("CreateNew", "Item", ItemsMsgId, "CreateNew")
    \/ \E id \in DOMAIN items : Listed("Item", selected_item_id, items) /\ ItemsSelect(id) /\ Step("Select", "Item", id, "Select")
    \/ \E id \in DOMAIN items : Listed("Item", selected_item_id, items) /\ ItemsCopyItem(id) /\ Step("Copy", "Item", id, "CopyItem")
    \/ \E price_level_id \in DOMAIN price_levels, item_price \in RateInputs : Listed("Item", selected_item_id, items) /\ ItemsUpdatePrice(price_level_id, item_price) /\ Step("UpdatePrice", "Item", ItemsMsgId, "UpdatePrice")

\* A data file of n entities of every type; with dup every list also holds
\* a second entity with the ID of its first, which load_state() keys under
\* the same ID.
WithDuplicate(list) == IF list = << >> THEN list ELSE Append(list, [list[1] EXCEPT !.name = <<"d">>])
AppFile(n, dup) ==
    LET file == DeleteFile(Some(1), Some(<<1>>))
    IN [k \in DOMAIN file |-> IF dup THEN WithDuplicate(SubSeq(file[k], 1, n)) ELSE SubSeq(file[k], 1, n)]

Init == \E n \in 0..MaxId, dup \in BOOLEAN : InitWith(AppFile(n, dup), MaxAppSteps)

Next ==
    \/ NavStep(NavScreens)
    \/ NextModal
    \/ NextItems
    \/ NextItemGroups
    \/ NextTaxGroups
    \/ NextSecurityLevels
    \/ NextRevenueCategories
    \/ NextProductClasses
    \/ NextPriceLevels
    \/ NextReportCategories
    \/ NextChoiceGroups
    \/ NextPrinterLogicals

Spec == Init /\ [][Next]_vars

\* Some collection holds two entities of one id.
SharedId(map) == \E k1, k2 \in DOMAIN map : k1 # k2 /\ map[k1].id = map[k2].id

\* C2: within each of the ten collections no two committed entities carry
\* the same id, in every state reachable by load, create, copy, save and
\* delete.
C2_IdsUnique == \A t \in EntityTypes : ~SharedId(CollectionOf(t))

\* A copy made of an entity that the data file listed twice under one id.
C2_Witness ==
    /\ last.msg = "Copy" /\ last.type = "Item"
    /\ DOMAIN snap.items = {1} /\ snap.items[1].name = <<"d">>
    /\ DOMAIN items = {1, 2}

-----------------------------------------------------------------------------
(* Create-new, field edits, cancel: every type over a loaded data file *)

\* A step of the sequence: as Step, and call follows the sequence.
SessionStep(msg, type, id, fn) ==
    /\ steps > 0
    /\ last' = [msg |-> msg, type |-> type, id |-> id, op |-> msg]
    /\ steps' = steps - 1
    /\ call' = [fn |-> fn, type |-> type, id |-> id, before |-> IF fn = "CreateNew" THEN CollectionOf(type) ELSE call.before]
    /\ UNCHANGED <<snap, task>>

\* No sequence is under way / the sequence under way is on a type.
Idle == call.fn # "CreateNew"
Creating(type) == call.fn = "CreateNew" /\ call.type = type /\ Shows(type)

InitCancel == \E n \in 0..MaxId : InitWith(AppFile(n, FALSE), MaxCancelSteps)

NextCancel ==
    \/ Idle /\ NavStep(NavScreens)
    \/ Idle /\ Shows("ItemGroup") /\ ItemGroupsCreateNew /\ SessionStep("CreateNew", "ItemGroup", NextId(item_groups), "CreateNew")
    \/ \E new_name \in Names : Creating("ItemGroup") /\ ItemGroupsUpdateName(call.id, new_name) /\ SessionStep("UpdateName", "ItemGroup", call.id, "CreateNew")
    \/ Creating("ItemGroup") /\ ItemGroupsCancelEdit(call.id) /\ SessionStep("CancelEdit", "ItemGroup", call.id, "Cancel")
    \/ Idle /\ Shows("TaxGroup") /\ TaxGroupsCreateNew /\ SessionStep("CreateNew", "TaxGroup", NextId(tax_groups), "CreateNew")
    \/ \E new_name \in Names : Creating("TaxGroup") /\ TaxGroupsUpdateName(call.id, new_name) /\ SessionStep("UpdateName", "TaxGroup", call.id, "CreateNew")
    \/ Creating("TaxGroup") /\ TaxGroupsCancelEdit(call.id) /\ SessionStep("CancelEdit", "TaxGroup", call.id, "Cancel")
    \/ Idle /\ Shows("SecurityLevel") /\ SecurityLevelsCreateNew /\ SessionStep("CreateNew", "SecurityLevel", NextId(security_levels), "CreateNew")
    \/ \E new_name \in Names : Creating("SecurityLevel") /\ SecurityLevelsUpdateName(call.id, new_name) /\ SessionStep("UpdateName", "SecurityLevel", call.id, "CreateNew")
    \/ Creating("SecurityLevel") /\ SecurityLevelsCancelEdit(call.id) /\ SessionStep("CancelEdit", "SecurityLevel", call.id, "Cancel")
    \/ Idle /\ Shows("RevenueCategory") /\ RevenueCategoriesCreateNew /\ SessionStep("CreateNew", "RevenueCategory", NextId(revenue_categories), "CreateNew")
    \/ \E new_name \in Names : Creating("RevenueCategory") /\ RevenueCategoriesUpdateName(call.id, new_name) /\ SessionStep("UpdateName", "RevenueCategory", call.id, "CreateNew")
    \/ Creating("RevenueCategory") /\ RevenueCategoriesCancelEdit(call.id) /\ SessionStep("CancelEdit", "RevenueCategory", call.id, "Cancel")
    \/ Idle /\ Shows("ProductClass") /\ ProductClassesCreateNew /\ SessionStep("CreateNew", "ProductClass", NextId(product_classes), "CreateNew")
    \/ \E new_name \in Names : Creating("ProductClass") /\ ProductClassesUpdateName(call.id, new_name) /\ SessionStep("UpdateName", "ProductClass", call.id, "CreateNew")
    \/ Creating("ProductClass") /\ ProductClassesCancelEdit(call.id) /\ SessionStep("CancelEdit", "ProductClass", call.id, "Cancel")
    \/ Idle /\ Shows("PriceLevel") /\ PriceLevelsCreateNew /\ SessionStep("CreateNew", "PriceLevel", NextId(price_levels), "CreateNew")
    \/ \E new_name \in Names : Creating("PriceLevel") /\ PriceLevelsUpdateName(call.id, new_name) /\ SessionStep("UpdateName", "PriceLevel", call.id, "CreateNew")
    \/ Creating("PriceLevel") /\ PriceLevelsCancelEdit(call.id) /\ SessionStep("CancelEdit", "PriceLevel", call.id, "Cancel")
    \/ Idle /\ Shows("Item") /\ ItemsCreateNew /\ SessionStep("CreateNew", "Item", NextId(items), "CreateNew")
    \/ \E price_level_id \in DOMAIN price_levels, item_price \in RateInputs : Creating("Item") /\ ItemsUpdatePrice(price_level_id, item_price) /\ SessionStep("UpdatePrice", "Item", call.id, "CreateNew")
    \/ Creating("Item") /\ ItemsCancel /\ SessionStep("Cancel", "Item", call.id, "Cancel")
    \/ Idle /\ Shows("ReportCategory") /\ ReportCategoriesCreateNew /\ SessionStep("CreateNew", "ReportCategory", NextId(report_categories), "CreateNew")
    \/ Creating("ReportCategory") /\ ReportCategoriesCancel /\ SessionStep("Cancel", "ReportCategory", call.id, "Cancel")
    \/ Idle /\ Shows("ChoiceGroup") /\ ChoiceGroupsCreateNew /\ SessionStep("CreateNew", "ChoiceGroup", NextId(choice_groups), "CreateNew")
    \/ \E name \in NameInputs : Creating("ChoiceGroup") /\ ChoiceGroupsEditUpdateName(name) /\ SessionStep("Edit.UpdateName", "ChoiceGroup", call.id, "CreateNew")
    \/ \E id \in IdInputs : Creating("ChoiceGroup") /\ ChoiceGroupsEditUpdateId(id) /\ SessionStep("Edit.UpdateId", "ChoiceGroup", call.id, "CreateNew")
    \/ Creating("ChoiceGroup") /\ ChoiceGroupsCancel /\ SessionStep("Cancel", "ChoiceGroup", call.id, "Cancel")
    \/ Idle /\ Shows("PrinterLogical") /\ PrinterLogicalsCreateNew /\ SessionStep("CreateNew", "PrinterLogical", NextId(printer_logicals), "CreateNew")
    \/ Creating("PrinterLogical") /\ PrinterLogicalsCancel /\ SessionStep("Cancel", "PrinterLogical", call.id, "Cancel")

SpecCancel == InitCancel /\ [][NextCancel]_vars

\* C8: for every entity type, after create-new, any number of field edits
\* and cancel, the committed collection of the type equals what it was
\* before create-new.
C8_CancelRestoresCollection == call.fn = "Cancel" => CollectionOf(call.type) = call.before

-----------------------------------------------------------------------------
(* Saving: names, commits and allocated IDs *)

\* The latest step was a per-row SaveAll of the entity id of type t.
RowSaved(t, id) == last'.msg = "SaveAll" /\ last'.type = t /\ last'.id = id

\* C11: a save of an entity whose name is empty or whitespace-only fails,
\* so that after a per-row SaveAll the committed entity never has an
\* empty name.
C11_EmptyNameRejected ==
    [][\A t \in EntityTypes : \A id \in DOMAIN CollectionOf(t) :
          RowSaved(t, id) => Trim(CollectionOf(t)'[id].name) # << >>]_vars

\* The latest step is a Save on the choice-group screen that passed
\* validation, sent for a draft that create-new started.
CommitsNewDraft == IsEditSave /\ last'.op = "Save" /\ draft_choice_group_id = Some(-1) /\ ChoiceGroupsMsgId = -1

\* C12: a successful Save of a new draft inserts exactly one entity, under
\* next_id of the collection, and clears the draft slot (draft id None,
\* draft record the default).
C12_CommitNewDraft ==
    [][CommitsNewDraft =>
        /\ DOMAIN choice_groups' = DOMAIN choice_groups \cup {NextId(choice_groups)}
        /\ choice_groups'[NextId(choice_groups)].id = NextId(choice_groups)
        /\ \A id \in DOMAIN choice_groups : choice_groups'[id] = choice_groups[id]
        /\ draft_choice_group_id' = None
        /\ draft_choice_group' = DefaultEntity]_vars

\* The latest step is a Save on the choice-group screen that passed
\* validation, sent for the draft that start-edit took of a committed group.
CommitsEdit ==
    /\ IsEditSave /\ last'.op = "Save"
    /\ ChoiceGroupsMsgId \in DOMAIN choice_groups
    /\ draft_choice_group_id = Some(ChoiceGroupsMsgId)

\* C13: a successful Save of an edit of id overwrites the entry at id in
\* place: the set of IDs is the same, the saved entity's id is id, no other
\* entity changes, and the session returns to Idle (no draft left).
C13_CommitEdit ==
    [][CommitsEdit =>
        /\ DOMAIN choice_groups' = DOMAIN choice_groups
        /\ choice_groups'[ChoiceGroupsMsgId].id = ChoiceGroupsMsgId
        /\ \A id \in DOMAIN choice_groups \ {ChoiceGroupsMsgId} : choice_groups'[id] = choice_groups[id]
        /\ draft_choice_group_id' = None]_vars

\* The latest step is a field edit on the choice-group screen while a
\* committed group is being edited.
EditsField ==
    /\ last'.msg \in {"Edit.UpdateName", "Edit.UpdateId"} /\ last'.type = "ChoiceGroup"
    /\ draft_choice_group_id # None
    /\ Unwrap(draft_choice_group_id) \in DOMAIN choice_groups

\* C14: while a committed entity is being edited, a field-edit message
\* leaves every entry of the collection as it was: it changes the working
\* copy only.
C14_EditKeepsCommitted ==
    [][EditsField =>
        /\ choice_groups' = choice_groups
        /\ collections' = collections
        /\ UNCHANGED <<selected_choice_group_id, draft_choice_group_id, choice_group_edit_state_vec>>]_vars

\* A name typed while choice group 1 is being edited: the committed group
\* keeps its name.
C14_Witness ==
    /\ last.msg = "Edit.UpdateName" /\ last.type = "ChoiceGroup"
    /\ draft_choice_group_id = Some(1) /\ 1 \in DOMAIN choice_groups
    /\ choice_group_edit_state.name = <<"a">>
    /\ choice_groups[1].name = <<"n">>

\* The types edited through a single draft slot, and the slot of each.
DraftTypes == {"Item", "ReportCategory", "ChoiceGroup", "PrinterLogical"}
DraftIdOf(type) ==
    CASE type = "Item" -> draft_item_id
      [] type = "ReportCategory" -> draft_report_category_id
      [] type = "ChoiceGroup" -> draft_choice_group_id
      [] type = "PrinterLogical" -> draft_printer_id
DraftOf(type) ==
    CASE type = "Item" -> draft_item
      [] type = "ReportCategory" -> draft_report_category
      [] type = "ChoiceGroup" -> draft_choice_group
      [] type = "PrinterLogical" -> draft_printer

\* C15: right after create-new the draft has no ID yet: the draft id marker
\* is -1 and so is the id field of the draft record.
C15_NoIdAtCreateNew ==
    \A t \in DraftTypes :
        (last.msg = "CreateNew" /\ last.type = t) => DraftIdOf(t) = Some(-1) /\ DraftOf(t).id = -1

\* The per-row edit states of a type (items have none).
EditStatesOf(type) ==
    CASE type = "Item" -> << >>
      [] type = "ItemGroup" -> item_group_edit_state_vec
      [] type = "PriceLevel" -> price_level_edit_state_vec
      [] type = "ProductClass" -> product_class_edit_state_vec
      [] type = "TaxGroup" -> tax_group_edit_state_vec
      [] type = "SecurityLevel" -> security_level_edit_state_vec
      [] type = "RevenueCategory" -> revenue_category_edit_state_vec
      [] type = "ReportCategory" -> report_category_edit_state_vec
      [] type = "ChoiceGroup" -> choice_group_edit_state_vec
      [] type = "PrinterLogical" -> printer_logical_edit_state_vec

\* The edit sessions in flight for a type: the draft slot when it is taken
\* and every per-row edit state.
SessionsOf(type) == Len(EditStatesOf(type)) + (IF type \in DraftTypes /\ DraftIdOf(type) # None THEN 1 ELSE 0)

\* C16: at most one draft (edit session in flight) exists per entity type
\* in every reachable state.
C16_OneDraftPerType == \A t \in EntityTypes : SessionsOf(t) <= 1

-----------------------------------------------------------------------------
(* Allocation of IDs: data files whose IDs leave gaps *)

MaxAllocSteps == 3

\* The ID lists of the data files: none, one with 1 unused, one with 2 unused.
IdLists == {<< >>, <<2>>, <<1, 3>>}

AllocFile(list) ==
    [items |-> [k \in DOMAIN list |-> StoredItem(list[k], None, None)],
     item_groups |-> [k \in DOMAIN list |-> StoredItemGroup(list[k])],
     price_levels |-> [k \in DOMAIN list |-> StoredPriceLevel(list[k])],
     product_classes |-> [k \in DOMAIN list |-> StoredProductClass(list[k], None, None)],
     tax_groups |-> [k \in DOMAIN list |-> StoredTaxGroup(list[k])],
     security_levels |-> [k \in DOMAIN list |-> StoredEntity(list[k])],
     revenue_categories |-> [k \in DOMAIN list |-> StoredEntity(list[k])],
     report_categories |-> [k \in DOMAIN list |-> StoredEntity(list[k])],
     choice_groups |-> [k \in DOMAIN list |-> StoredEntity(list[k])],
     printer_logicals |-> [k \in DOMAIN list |-> StoredEntity(list[k])]]

InitAlloc == \E list \in IdLists : InitWith(AllocFile(list), MaxAllocSteps)

\* The handlers that allocate an ID, and the items handlers that lead to a
\* Save of the default draft.
NextAlloc ==
    \/ NavStep(NavScreens)
    \/ ItemGroupsCreateNew /\ RowStep("CreateNew", "ItemGroup", NextId(item_groups))
    \/ \E id \in DOMAIN item_groups : ItemGroupsCopyItemGroup(id) /\ RowStep("Copy", "ItemGroup", id)
    \/ TaxGroupsCreateNew /\ RowStep("CreateNew", "TaxGroup", NextId(tax_groups))
    \/ \E id \in DOMAIN tax_groups : TaxGroupsCopyTaxGroup(id) /\ RowStep("Copy", "TaxGroup", id)
    \/ SecurityLevelsCreateNew /\ RowStep("CreateNew", "SecurityLevel", NextId(security_levels))
    \/ \E id \in DOMAIN security_levels : SecurityLevelsCopySecurityLevel(id) /\ RowStep("Copy", "SecurityLevel", id)
    \/ RevenueCategoriesCreateNew /\ RowStep("CreateNew", "RevenueCategory", NextId(revenue_categories))
    \/ \E id \in DOMAIN revenue_categories : RevenueCategoriesCopyRevenueCategory(id) /\ RowStep("Copy", "RevenueCategory", id)
    \/ ProductClassesCreateNew /\ RowStep("CreateNew", "ProductClass", NextId(product_classes))
    \/ \E id \in DOMAIN product_classes : ProductClassesCopyProductClass(id) /\ RowStep("Copy", "ProductClass", id)
    \/ PriceLevelsCreateNew /\ RowStep("CreateNew", "PriceLevel", NextId(price_levels))
    \/ \E id \in DOMAIN price_levels : PriceLevelsCopyPriceLevel(id) /\ RowStep("Copy", "PriceLevel", id)
    \/ Shows("ChoiceGroup") /\ ChoiceGroupsCreateNew /\ Step("CreateNew", "ChoiceGroup", ChoiceGroupsMsgId, "CreateNew")
    \/ \E id \in DOMAIN choice_groups : ChoiceGroupsListed /\ ChoiceGroupsCopyChoiceGroup(id) /\ Step("Copy", "ChoiceGroup", id, "CopyChoiceGroup")
    \/ ChoiceGroupsListed /\ ChoiceGroupsCreateNewMulti /\ Step("CreateNewMulti", "ChoiceGroup", NextId(choice_groups), "CreateNewMulti")
    \/ Shows("ReportCategory") /\ ReportCategoriesCreateNew /\ Step("CreateNew", "ReportCategory", ReportCategoriesMsgId, "CreateNew")
    \/ \E id \in DOMAIN report_categories : Listed("ReportCategory", selected_report_category_id, report_categories) /\ ReportCategoriesCopyReportCategory(id) /\ Step("Copy", "ReportCategory", id, "CopyReportCategory")
    \/ Listed("ReportCategory", selected_report_category_id, report_categories) /\ ReportCategoriesCreateNewMulti /\ Step("CreateNewMulti", "ReportCategory", NextId(report_categories), "CreateNewMulti")
    \/ Shows("PrinterLogical") /\ PrinterLogicalsCreateNew /\ Step("CreateNew", "PrinterLogical", PrinterLogicalsMsgId, "CreateNew")
    \/ \E id \in DOMAIN printer_logicals : Listed("PrinterLogical", selected_printer_id, printer_logicals) /\ PrinterLogicalsCopyPrinterLogical(id) /\ Step("Copy", "PrinterLogical", id, "CopyPrinterLogical")
    \/ Listed("PrinterLogical", selected_printer_id, printer_logicals) /\ PrinterLogicalsCreateNewMulti /\ Step("CreateNewMulti", "PrinterLogical", NextId(printer_logicals), "CreateNewMulti")
    \/ Shows("Item") /\ ItemsCreateNew /\ Step("CreateNew", "Item", ItemsMsgId, "CreateNew")
    \/ \E id \in DOMAIN items : Listed("Item", selected_item_id, items) /\ ItemsCopyItem(id) /\ Step("Copy", "Item", id, "CopyItem")
    \/ Listed("Item", selected_item_id, items) /\ ItemsCancel /\ Step("Cancel", "Item", ItemsMsgId, "Cancel")
    \/ Listed("Item", selected_item_id, items) /\ ItemsSave /\ Step("Save", "Item", ItemsMsgId, "Save")

SpecAlloc == InitAlloc /\ [][NextAlloc]_vars

\* One more than the greatest key of a collection, 1 for an empty one.
MaxPlusOne(map) ==
    LET top == {k \in DOMAIN map : \A j \in DOMAIN map : j <= k}
    IN IF top = {} THEN 1 ELSE (CHOOSE k \in top : TRUE) + 1

\* A step of a handler that computes a new ID for an entity of type t: a
\* CreateNew, a copy, or the Save of an item that has no ID yet.
Allocates(t) ==
    /\ last'.type = t
    /\ \/ last'.msg \in {"CreateNew", "Copy", "CreateNewMulti"}
       \/ last'.msg = "Save" /\ t = "Item" /\ ItemsTarget.id < 0

\* The ID the step gave out: the key it added to the collection, or else the
\* id it wrote into the draft.
AllocatedIds(t) ==
    IF DOMAIN CollectionOf(t)' # DOMAIN CollectionOf(t)
    THEN DOMAIN CollectionOf(t)' \ DOMAIN CollectionOf(t)
    ELSE IF t \in DraftTypes THEN {DraftOf(t)'.id} ELSE {}

\* C17: every step that allocates an ID for a new entity (CreateNew, copy,
\* Save of a draft without ID), for every entity type, gives out 1 when the
\* collection is empty and its greatest key plus one otherwise, whatever
\* smaller IDs are unused.
C17_AllocatesMaxPlusOne ==
    [][\A t \in EntityTypes : Allocates(t) => AllocatedIds(t) = {MaxPlusOne(CollectionOf(t))}]_vars

\* A copy made in a collection whose ID 2 is unused got ID 4.
C17_Witness ==
    /\ last.msg = "Copy" /\ last.type = "SecurityLevel"
    /\ DOMAIN security_levels = {1, 3, 4}
    /\ security_levels[4].id = 4

\* A step that copies the committed entity s of type t.
Copies(t, s) == last'.msg = "Copy" /\ last'.type = t /\ last'.id = s

\* C18: copying the committed entity with ID s inserts exactly one new
\* entity, under n = greatest key + 1, whose id is n, whose name is the
\* source's name followed by "(n)" and whose other fields are the source's;
\* the source and every other entry of the collection stay as they were.
C18_CopyInsertsOne ==
    [][\A t \in EntityTypes : \A s \in DOMAIN CollectionOf(t) :
          Copies(t, s) =>
              LET old == CollectionOf(t)
                  new == CollectionOf(t)'
                  n == MaxPlusOne(old)
              IN /\ n \notin DOMAIN old
                 /\ DOMAIN new = DOMAIN old \cup {n}
                 /\ new[n].id = n
                 /\ new[n].name = old[s].name \o <<"(">> \o IntToStr(n) \o <<")">>
                 /\ \A f \in DOMAIN old[s] \ {"id", "name"} : new[n][f] = old[s][f]
                 /\ \A k \in DOMAIN old : new[k] = old[k]]_vars

\* Item group 3 was copied to 4: "n(4)", with the ID range of its source.
C18_Witness ==
    /\ last.msg = "Copy" /\ last.type = "ItemGroup" /\ last.id = 3
    /\ DOMAIN item_groups = {1, 3, 4}
    /\ item_groups[4].name = <<"n", "(", "4", ")">>
    /\ item_groups[4].id_range = item_groups[3].id_range
    /\ item_groups[3].name = <<"n">>

\* The keys a step adds to the collection of type t.
InsertedKeys(t) == DOMAIN CollectionOf(t)' \ DOMAIN CollectionOf(t)

\* C19: no operation inserts an entity that has not passed its type's
\* validation: every entity a step adds to a collection has the non-empty
\* name every type's rules ask for, and a choice group passes
\* ChoiceGroup::validate against the groups already there.
C19_InsertedPassedValidation ==
    [][\A t \in EntityTypes : \A k \in InsertedKeys(t) :
          /\ Trim(CollectionOf(t)'[k].name) # << >>
          /\ t = "ChoiceGroup" =>
                ChoiceGroupValidate(choice_groups'[k], {choice_groups[j] : j \in DOMAIN choice_groups}) = "Ok"]_vars

-----------------------------------------------------------------------------
(* Deleting an ID that is not in its collection *)

MaxAbsentSteps == 6

InitAbsent == InitWith(AppFile(1, FALSE), MaxAbsentSteps)

\* Operation::RequestDelete(id) stores whatever id it is given, so the
\* delete is requested for absent IDs as well; items are edited and saved
\* in between.
NextAbsent ==
    \/ NavStep(NavScreens)
    \/ \E t \in EntityTypes, id \in Ids : Shows(t) /\ RequestDelete(t, id) /\ Step("RequestDelete", t, id, "RequestDelete")
    \/ ~ViewPanics /\ ConfirmDelete /\ Step("ConfirmDelete", deletion_info.entity_type, deletion_info.entity_id, "none")
    \/ ~ViewPanics /\ CancelDelete /\ Step("CancelDelete", "", -1, "none")
    \/ Listed("Item", selected_item_id, items) /\ ItemsStartEdit /\ Step("StartEdit", "Item", ItemsMsgId, "StartEdit")
    \/ Listed("Item", selected_item_id, items) /\ ItemsSave /\ Step("Save", "Item", ItemsMsgId, "Save")

SpecAbsent == InitAbsent /\ [][NextAbsent]_vars

\* A step that confirms the delete of an ID its type's collection lacks.
DeletesAbsent ==
    /\ last'.msg = "ConfirmDelete"
    /\ deletion_info.entity_type \in EntityTypes
    /\ deletion_info.entity_id \notin DOMAIN CollectionOf(deletion_info.entity_type)

-----------------------------------------------------------------------------
(* What a delete leaves of selections, drafts and edit sessions *)

\* The selected id of the types that have a selection.
SelectedIdOf(type) ==
    CASE type = "Item" -> selected_item_id
      [] type = "ReportCategory" -> selected_report_category_id
      [] type = "ChoiceGroup" -> selected_choice_group_id
      [] type = "PrinterLogical" -> selected_printer_id

\* C21: after a confirmed delete of the entity (type, id), neither the
\* selected id, nor the draft id, nor an edit state of the per-row list of
\* that type names id.
C21_DeleteClearsPointers ==
    \A t \in EntityTypes :
        (last.msg = "ConfirmDelete" /\ last.type = t) =>
            /\ t \in DraftTypes => SelectedIdOf(t) # Some(last.id) /\ DraftIdOf(t) # Some(last.id)
            /\ ~AlreadyEditing(EditStatesOf(t), last.id)

\* No deletion is pending: the modal is closed and names nothing.
NothingPending == ~show_modal /\ deletion_info = DeletionInfoNew

\* Some collection loses a key in the step.
RemovesEntity == \E t \in EntityTypes : DOMAIN CollectionOf(t) \ DOMAIN CollectionOf(t)' # {}

\* C22: RequestDelete only records the pending (type, id) and opens the
\* modal, changing no collection; an entity leaves its collection only in
\* a ConfirmDelete of a pending deletion of it; CancelDelete changes no
\* collection; after ConfirmDelete or CancelDelete nothing is pending.
C22_TwoStepDelete ==
    [][/\ last'.msg = "RequestDelete" =>
            /\ deletion_info' = [entity_type |-> last'.type, entity_id |-> last'.id, affected_items |-> << >>]
            /\ show_modal'
            /\ collections' = collections
       /\ RemovesEntity =>
            /\ last'.msg = "ConfirmDelete" /\ show_modal
            /\ \A t \in EntityTypes : DOMAIN CollectionOf(t) \ DOMAIN CollectionOf(t)' \subseteq
                   (IF deletion_info.entity_type = t THEN {deletion_info.entity_id} ELSE {})
       /\ last'.msg = "CancelDelete" => collections' = collections
       /\ last'.msg \in {"ConfirmDelete", "CancelDelete"} => NothingPending']_vars

\* A requested delete was confirmed: the entity is gone, nothing is pending.
C22_Witness ==
    /\ last.msg = "ConfirmDelete" /\ last.type \in EntityTypes
    /\ last.id \notin DOMAIN CollectionOf(last.type)
    /\ NothingPending

-----------------------------------------------------------------------------
(* Item groups: validation of the ID range *)

MaxRangeSteps == 4

\* The texts typed into the two range inputs.
RangeTexts == {<<"1">>, <<"5", "0">>, <<"1", "0", "0">>, <<"1", "0", "1">>, <<"2", "0", "0">>, <<"x">>}

\* item_groups::edit::EditState::validate: the first failure, or "Ok".
ItemGroupEditStateValidate(state, other_groups) ==
    IF Trim(state.name) = << >> THEN "EmptyName"
    ELSE IF ~ParseI32(state.range_start).ok THEN "InvalidId"
    ELSE IF ~ParseI32(state.range_end).ok THEN "InvalidId"
    ELSE LET range == [start |-> ParseI32(state.range_start).val, end |-> ParseI32(state.range_end).val]
         IN IF range.start >= range.end THEN "InvalidRange"
            ELSE IF \E other \in other_groups : RangesOverlap(range, other.id_range) THEN "RangeOverlap"
            ELSE "Ok"

\* The edit state of item group id, as the fields validate() reads.
ItemGroupEditStateOf(id) ==
    LET edit_state == item_group_edit_state_vec[FindEditState(item_group_edit_state_vec, id)]
    IN [name |-> edit_state.base.name, range_start |-> edit_state.id_range_start, range_end |-> edit_state.id_range_end]

\* The item groups other than id.
OtherItemGroups(id) == {item_groups[k] : k \in DOMAIN item_groups \ {id}}

\* The validation of the edit state of item group id against the other
\* groups; it changes nothing.
ItemGroupsValidate(id) ==
    /\ ~show_modal
    /\ AlreadyEditing(item_group_edit_state_vec, id)
    /\ UNCHANGED <<screen, error_message, vModal, vItems, vItemGroups, vPriceLevels, vProductClasses, vTaxGroups, vSecurityLevels, vRevenueCategories, vReportCategories, vChoiceGroups, vPrinterLogicals>>

\* A data file whose first item group has the range 1..100.
RangeFile(second) ==
    [EmptyFile EXCEPT !.item_groups =
        <<[id |-> 1, name |-> <<"n">>, id_range |-> [start |-> 1, end |-> 100]]>>
        \o (IF second THEN <<[id |-> 2, name |-> <<"n">>, id_range |-> [start |-> 150, end |-> 160]]>> ELSE << >>)]

InitRanges == \E second \in BOOLEAN : InitWith(RangeFile(second), MaxRangeSteps)

Editing(id) == AlreadyEditing(item_group_edit_state_vec, id)

NextRanges ==
    \/ NavStep({"ItemGroups"})
    \/ ItemGroupsCreateNew /\ RowStep("CreateNew", "ItemGroup", NextId(item_groups))
    \/ \E id \in DOMAIN item_groups : ItemGroupsEditItemGroup(id) /\ RowStep("Edit", "ItemGroup", id)
    \/ \E id \in DOMAIN item_groups, new_name \in Names : Editing(id) /\ ItemGroupsUpdateName(id, new_name) /\ RowStep("UpdateName", "ItemGroup", id)
    \/ \E id \in DOMAIN item_groups, new_range \in RangeTexts : Editing(id) /\ ItemGroupsUpdateIdRangeStart(id, new_range) /\ RowStep("UpdateIdRangeStart", "ItemGroup", id)
    \/ \E id \in DOMAIN item_groups, new_range \in RangeTexts : Editing(id) /\ ItemGroupsUpdateIdRangeEnd(id, new_range) /\ RowStep("UpdateIdRangeEnd", "ItemGroup", id)
    \/ \E id \in DOMAIN item_groups : ItemGroupsValidate(id) /\ Shows("ItemGroup") /\ Step("Validate", "ItemGroup", id, ItemGroupEditStateValidate(ItemGroupEditStateOf(id), OtherItemGroups(id)))
    \/ \E id \in DOMAIN item_groups : Editing(id) /\ ItemGroupsSaveAll(id) /\ RowStep("SaveAll", "ItemGroup", id)

SpecRanges == InitRanges /\ [][NextRanges]_vars

\* The edit state of the group just validated holds a name and the range
\* start..end, and some other group has the range 1..100.
ValidatedRange(start, end) ==
    /\ last.msg = "Validate"
    /\ Trim(ItemGroupEditStateOf(last.id).name) # << >>
    /\ ItemGroupEditStateOf(last.id).range_start = IntToStr(start)
    /\ ItemGroupEditStateOf(last.id).range_end = IntToStr(end)
    /\ \E other \in OtherItemGroups(last.id) : other.id_range = [start |-> 1, end |-> 100]

\* C23: with a committed group of range 1..100, a second group with the
\* adjacent range 100..200 passes validation, and one with the range
\* 50..200, which overlaps the first, fails.
C23_AdjacentRangesAccepted ==
    /\ ValidatedRange(100, 200) => last.op = "Ok"
    /\ ValidatedRange(50, 200) => last.op # "Ok"

\* C24: validation of an item group with a non-empty name and the range
\* start..end fails with InvalidRange when start >= end; otherwise it fails
\* with RangeOverlap exactly when some other group b has start <= b.end
\* and b.start <= end; otherwise it succeeds.
C24_RangeValidation ==
    LET start == ParseI32(ItemGroupEditStateOf(last.id).range_start)
        end == ParseI32(ItemGroupEditStateOf(last.id).range_end)
    IN (/\ last.msg = "Validate"
        /\ Trim(ItemGroupEditStateOf(last.id).name) # << >>
        /\ start.ok /\ end.ok) =>
           last.op = IF start.val >= end.val THEN "InvalidRange"
                     ELSE IF \E b \in OtherItemGroups(last.id) : start.val <= b.id_range.end /\ b.id_range.start <= end.val
                          THEN "RangeOverlap"
                          ELSE "Ok"

\* The range 100..200 was refused next to a group of range 1..100.
C24_Witness == ValidatedRange(100, 200) /\ last.op = "RangeOverlap"

-----------------------------------------------------------------------------
(* Validation: order of the rules and ID ranges *)

\* The first failing rule in the order ID range, duplicate ID, required
\* name, for the choice-group form with a number typed as ID.
FirstFailingRule ==
    IF TypedId.val \notin 1..9999 THEN "InvalidId"
    ELSE IF \E other \in OtherChoiceGroups(ChoiceGroupsMsgId) : other.id = TypedId.val THEN "DuplicateId"
    ELSE IF Trim(choice_group_edit_state.name) = << >> THEN "EmptyName"
    ELSE "Ok"

\* C25: a Save that fails reports exactly one error, that of the first
\* failing rule in the order ID range, duplicate ID, required name: an
\* out-of-range ID with an empty name is reported as InvalidId, a duplicate
\* ID with an empty name as DuplicateId.
C25_FirstFailingRule ==
    [][(IsEditSave /\ TypedId.ok /\ FirstFailingRule # "Ok") =>
           choice_group_edit_state'.validation_error = Some(FirstFailingRule)]_vars

MaxLevelSteps == 3

\* SecurityLevel::validate: the first failure, or "Ok".
SecurityLevelValidate(level, other_levels) ==
    IF level.id \notin 1..999 THEN "InvalidId"
    ELSE IF \E other \in other_levels : other.id = level.id THEN "DuplicateId"
    ELSE IF Trim(level.name) = << >> THEN "EmptyName"
    ELSE "Ok"

\* security_levels::EditState::new
SecurityLevelEditStateNew(level) == [name |-> level.name, id |-> IntToStr(level.id), validation_error |-> None]

\* security_levels::EditState::validate: the first failure, or "Ok".
SecurityLevelEditStateValidate(state) ==
    IF Trim(state.name) = << >> THEN "EmptyName"
    ELSE IF ~ParseI32(state.id).ok THEN "InvalidId"
    ELSE IF ParseI32(state.id).val \notin 1..999 THEN "InvalidId"
    ELSE "Ok"

\* The security levels other than id.
OtherSecurityLevels(id) == {security_levels[k] : k \in DOMAIN security_levels \ {id}}

\* A validation of security level id; it changes nothing.
SecurityLevelsValidate(id) ==
    /\ ~show_modal
    /\ id \in DOMAIN security_levels
    /\ UNCHANGED <<screen, error_message, vModal, vItems, vItemGroups, vPriceLevels, vProductClasses, vTaxGroups, vSecurityLevels, vRevenueCategories, vReportCategories, vChoiceGroups, vPrinterLogicals>>

\* Data files with the security levels at the two ends of the range 0-9.
LevelLists == {<<0>>, <<9>>, <<0, 9>>}
LevelsFile(list) == [EmptyFile EXCEPT !.security_levels = [k \in DOMAIN list |-> StoredEntity(list[k])]]

InitLevels == \E list \in LevelLists : InitWith(LevelsFile(list), MaxLevelSteps)

NextLevels ==
    \/ NavStep({"SecurityLevels"})
    \/ NextSecurityLevels
    \/ \E id \in DOMAIN security_levels : SecurityLevelsValidate(id) /\ Shows("SecurityLevel") /\ Step("Validate", "SecurityLevel", id, SecurityLevelValidate(security_levels[id], OtherSecurityLevels(id)))
    \/ \E id \in DOMAIN security_levels : SecurityLevelsValidate(id) /\ Shows("SecurityLevel") /\ Step("Edit.Validate", "SecurityLevel", id, SecurityLevelEditStateValidate(SecurityLevelEditStateNew(security_levels[id])))

SpecLevels == InitLevels /\ [][NextLevels]_vars

\* C26: the ID-range rule accepts a security level exactly when its ID is
\* in 0..9, in the entity validator and in the edit-state validator as in
\* IdRange::is_valid; ID 0 is accepted, ID 10 is rejected with InvalidId.
C26_SecurityLevelRange ==
    (last.msg \in {"Validate", "Edit.Validate"} /\ last.type = "SecurityLevel" /\ Trim(security_levels[last.id].name) # << >>) =>
        /\ (last.op # "InvalidId") <=> IdRangeIsValid("SecurityLevel", last.id)
        /\ IdRangeIsValid("SecurityLevel", last.id) <=> last.id \in 0..9

-----------------------------------------------------------------------------
(* Product classes: references at save *)

MaxClassSteps == 5

InitClasses == InitWith(AppFile(1, FALSE), MaxClassSteps)

\* The product-class rows, next to the deletes of the entities they refer to.
NextClasses ==
    \/ NavStep({"ItemGroups", "RevenueCategories", "ProductClasses"})
    \/ NextModal
    \/ NextProductClasses

SpecClasses == InitClasses /\ [][NextClasses]_vars

\* A reference that names no entity of the collection.
Dangling(ref, map) == ref # None /\ Unwrap(ref) \notin DOMAIN map

\* C27: saving a product class whose item_group or revenue_category names
\* an ID absent from its collection is rejected: the product classes are
\* unchanged.
C27_DanglingReferenceRejected ==
    [][\A id \in DOMAIN product_classes :
          (/\ RowSaved("ProductClass", id)
           /\ \/ Dangling(product_classes[id].item_group, item_groups)
              \/ Dangling(product_classes[id].revenue_category, revenue_categories)) =>
              product_classes' = product_classes]_vars

-----------------------------------------------------------------------------
(* Persistence: the snapshot and its failures *)

\* map.values().cloned().collect(): the entities in the order of their keys.
RECURSIVE ValuesList(_)
ValuesList(map) ==
    IF DOMAIN map = {} THEN << >>
    ELSE <<map[Min(DOMAIN map)]>> \o ValuesList(Remove(map, Min(DOMAIN map)))

\* The persistence::AppState save_state() builds from the collections.
SnapshotLists ==
    [items |-> ValuesList(items), item_groups |-> ValuesList(item_groups), price_levels |-> ValuesList(price_levels),
     product_classes |-> ValuesList(product_classes), tax_groups |-> ValuesList(tax_groups),
     security_levels |-> ValuesList(security_levels), revenue_categories |-> ValuesList(revenue_categories),
     report_categories |-> ValuesList(report_categories), choice_groups |-> ValuesList(choice_groups),
     printer_logicals |-> ValuesList(printer_logicals)]

\* The collections load_state() rebuilds from a snapshot, in the order of
\* the tuple collections.
Reloaded(state) ==
    <<FromList(state.items), FromList(state.item_groups), FromList(state.price_levels), FromList(state.product_classes),
      FromList(state.tax_groups), FromList(state.security_levels), FromList(state.revenue_categories),
      FromList(state.report_categories), FromList(state.choice_groups), FromList(state.printer_logicals)>>

\* C28: the lists save_state() makes of the ten collections, rebuilt into
\* maps keyed by each entity's id as load_state() does, are the collections
\* again: same IDs, same fields, same reference lists.
C28_SnapshotRoundTrip == Reloaded(SnapshotLists) = collections

\* Three items with an unused ID between them, the last one a copy, are
\* written in key order.
C28_Witness ==
    /\ last.msg = "Copy" /\ last.type = "Item"
    /\ DOMAIN items = {1, 3, 4}
    /\ Len(SnapshotLists.items) = 3
    /\ SnapshotLists.items[3] = items[4]

-----------------------------------------------------------------------------
(* Persistence: the snapshot and its failures, continued *)

\* MenuBuilder::new() when load_state() fails: the defaults, and the error
\* message.
InitLoadFailed(budget) == New([kind |-> "unreadable"], "none", budget)

InitPersist == InitChoiceGroups \/ InitLoadFailed(MaxFormSteps)

SpecPersist == InitPersist /\ [][NavStep({"Items(View)", "ChoiceGroups(View)"}) \/ NextChoiceGroups]_vars

\* The key a Save of the choice-group form commits its group under.
SaveKey == IF ChoiceGroupsTarget.id < 0 THEN NextId(choice_groups) ELSE ChoiceGroupsTarget.id

\* C29: a failed load leaves the ten collections as they were before it,
\* and a Save whose file write fails keeps the entity it committed and the
\* rest of the collections: the failure is recorded in the error message.
C29_FailuresKeepData ==
    /\ (error_message # None => \A k \in 1..Len(collections) : collections[k] = EmptyMap)
    /\ [][(IsEditSave /\ last'.op = "Save" /\ error_message' # None) =>
             /\ DOMAIN choice_groups' = DOMAIN choice_groups \cup {SaveKey}
             /\ choice_groups'[SaveKey] = [ChoiceGroupsTarget EXCEPT !.id = SaveKey]
             /\ \A k \in DOMAIN choice_groups \ {SaveKey} : choice_groups'[k] = choice_groups[k]
             /\ \A t \in EntityTypes \ {"ChoiceGroup"} : CollectionOf(t)' = CollectionOf(t)]_vars

\* The file write failed after the Save of a new group, which is in the
\* collection.
C29_Witness ==
    /\ last.msg = "Edit.Save" /\ last.op = "Save"
    /\ error_message # None
    /\ DOMAIN choice_groups # DOMAIN snap.choice_groups

-----------------------------------------------------------------------------
(* CSV export: the save-file dialog and the messages of the export *)

MaxExportSteps == 5

\* The process runs: no panic has ended it.
Running == task # "aborted"

vData == <<vModal, vItems, vItemGroups, vPriceLevels, vProductClasses, vTaxGroups, vSecurityLevels, vRevenueCategories, vReportCategories, vChoiceGroups, vPrinterLogicals>>

\* perform(Operation::Settings(ExportItemsToCSV)), the operation of the
\* export button of the settings screen: Task::done(Message::PrepareExport).
\* One export is followed at a time.
SettingsExportItemsToCSV ==
    /\ screen = "Settings"
    /\ task = "none"
    /\ task' = "PrepareExport"
    /\ Observe("Settings.ExportItemsToCSV", "", -1, "ExportItemsToCSV")
    /\ UNCHANGED <<screen, error_message, vData>>

\* Message::PrepareExport: the save-file dialog is opened; its future and
\* the closure that maps its result are handed to the runtime.
PrepareExport ==
    /\ task = "PrepareExport"
    /\ task' = "save_file"
    /\ Observe("PrepareExport", "", -1, "none")
    /\ UNCHANGED <<screen, error_message, vData>>

\* The dialog closes with a file or with none, and the runtime runs the
\* closure of PrepareExport on the result: file_handler.unwrap() and then
\* Message::ExportCSV(path).  unwrap() of None panics in the executor: the
\* process ends where panics abort, and elsewhere the thread of the task
\* unwinds and no message is delivered.
SaveFileClosed(file_handler) ==
    /\ task = "save_file"
    /\ IF file_handler # None
       THEN task' = "ExportCSV"
       ELSE task' \in {"aborted", "none"}
    /\ Observe("save_file", "", -1, IF file_handler = None THEN "None" ELSE "Some")
    /\ UNCHANGED <<screen, error_message, vData>>

\* Message::ExportCSV(path): export_items_to_csv2(path) runs, and its result
\* (that of writing the file) chooses the message that follows.
ExportCSV(result) ==
    /\ task = "ExportCSV"
    /\ IF result = "Ok"
       THEN /\ error_message' = None
            /\ task' = "ExportComplete"
       ELSE /\ error_message' = Some("Export failed")
            /\ task' = "ExportFailed"
    /\ Observe("ExportCSV", "", -1, result)
    /\ UNCHANGED <<screen, vData>>

\* Message::ExportComplete(path).
ExportComplete ==
    /\ task = "ExportComplete"
    /\ error_message' = Some("Export successful")
    /\ task' = "none"
    /\ Observe("ExportComplete", "", -1, "none")
    /\ UNCHANGED <<screen, vData>>

\* Message::ExportFailed(error).
ExportFailed ==
    /\ task = "ExportFailed"
    /\ error_message' = Some("Export failed")
    /\ task' = "none"
    /\ Observe("ExportFailed", "", -1, "none")
    /\ UNCHANGED <<screen, vData>>

InitExport == \E n \in 0..1 : InitWith(AppFile(n, FALSE), MaxExportSteps)

\* Message::ExportCSVSelected has no sender in the program: it is never
\* handled.
NextExport ==
    \/ Running /\ NavStep(NavScreens)
    \/ Running /\ SettingsExportItemsToCSV
    \/ Running /\ PrepareExport
    \/ \E file_handler \in {None, Some("path")} : Running /\ SaveFileClosed(file_handler)
    \/ \E result \in {"Ok", "Err"} : Running /\ ExportCSV(result)
    \/ Running /\ ExportComplete
    \/ Running /\ ExportFailed

SpecExport == InitExport /\ [][NextExport]_vars

\* C30: the export runs only on the message that carries the path the
\* dialog delivered, and a dialog
\* closed with no path chosen is an outcome of its own: the export does not
\* run, no export failure is reported and the program goes on running, with
\* no export under way.
C30_NoPathChosen ==
    [][/\ (last'.msg = "ExportCSV" => task = "ExportCSV")
       /\ (last'.msg = "save_file" /\ last'.op = "None" =>
             /\ task' = "none"
             /\ error_message' = error_message)]_vars

-----------------------------------------------------------------------------
(* Start of an edit: where the working copy comes from *)

\* The types edited in the rows of their list.
RowEditedTypes == {"ItemGroup", "PriceLevel", "ProductClass", "TaxGroup", "SecurityLevel", "RevenueCategory"}

\* The Edit of a row of type t that has no edit state yet.
StartsRowEdit(t) == last'.msg = "Edit" /\ last'.type = t /\ ~AlreadyEditing(EditStatesOf(t), last'.id)

\* C31: the Edit of a row takes its working copy from the committed entity
\* of the same type and ID: whenever the entity is in its type's own
\* collection and is not being edited, the Edit leaves an edit state with
\* the entity's ID and name.
C31_StartEditCopiesCommitted ==
    [][\A t \in RowEditedTypes :
          (StartsRowEdit(t) /\ last'.id \in DOMAIN CollectionOf(t)) =>
             /\ AlreadyEditing(EditStatesOf(t)', last'.id)
             /\ Base(EditStatesOf(t)'[FindEditState(EditStatesOf(t)', last'.id)]).name = CollectionOf(t)[last'.id].name]_vars

-----------------------------------------------------------------------------
(* Validation: text that is not a number *)

\* Texts that i32's parse rejects: no digits, a letter, a digit and a
\* letter, a sign alone.
UnparsableTexts == {<< >>, <<"x">>, <<"1", "x">>, <<"-">>}

\* The validators of the item-group and security-level edit states report
\* an ID or range bound that is not a number as they report an ID out of
\* range.
UnparsableIsInvalidId ==
    \A text \in UnparsableTexts :
        /\ ~ParseI32(text).ok
        /\ ItemGroupEditStateValidate([name |-> <<"a">>, range_start |-> text, range_end |-> <<"5">>], {}) = "InvalidId"
        /\ ItemGroupEditStateValidate([name |-> <<"a">>, range_start |-> <<"5">>, range_end |-> text], {}) = "InvalidId"
        /\ SecurityLevelEditStateValidate([name |-> <<"a">>, id |-> text]) = "InvalidId"
        /\ SecurityLevelEditStateValidate([name |-> <<"a">>, id |-> text]) = SecurityLevelEditStateValidate([name |-> <<"a">>, id |-> <<"0">>])
        /\ SecurityLevelEditStateValidate([name |-> << >>, id |-> text]) = SecurityLevelEditStateValidate([name |-> << >>, id |-> <<"0">>])

-----------------------------------------------------------------------------
(* Persistence: the start with no data file *)

MaxLoadSteps == 3

\* What new() can find at settings.file_path.
Disks == {[kind |-> "missing"], [kind |-> "unreadable"]} \cup {[kind |-> "file", file |-> ChoiceGroupsFile(n)] : n \in 1..MaxId}

InitLoad == \E disk \in Disks : New(disk, disk.kind, MaxLoadSteps)

SpecLoad == InitLoad /\ [][NavStep({"Items(View)", "ChoiceGroups(View)"}) \/ NextChoiceGroups]_vars

\* The program has started, with what load_state() found in last.op.
Started(kind) == last.msg = "new" /\ last.op = kind

\* C33: a start with no data file is a load that succeeded: there is no
\* error message and the ten collections are as the defaults left them,
\* empty.
C33_MissingFileIsNotAnError ==
    /\ LoadState([kind |-> "missing"], DefaultCollections).ok
    /\ (Started("missing") =>
          /\ error_message = None
          /\ \A k \in 1..Len(collections) : collections[k] = EmptyMap)

\* The program started with no data file, and it shows the items screen.
C33_Witness == Started("missing") /\ screen = "Items(View)" /\ choice_groups = EmptyMap /\ error_message = None

-----------------------------------------------------------------------------
(* The edit forms of security_levels.rs and product_classes.rs: Save *)

MaxSessionSteps == 3

\* ProductClass::validate: the first failure, or "Ok".
ProductClassValidate(class, other_classes, available_item_groups, available_revenue_categories) ==
    IF class.id \notin 1..999 THEN "InvalidId"
    ELSE IF \E other \in other_classes : other.id = class.id THEN "DuplicateId"
    ELSE IF Trim(class.name) = << >> THEN "EmptyName"
    ELSE IF class.item_group # None /\ ~\E g \in available_item_groups : g.id = Unwrap(class.item_group) THEN "MissingItemGroup"
    ELSE IF class.revenue_category # None /\ ~\E c \in available_revenue_categories : c.id = Unwrap(class.revenue_category) THEN "MissingRevenueCategory"
    ELSE "Ok"

\* security_levels::update on edit::Message::Save: the operation it returns
\* and the edit state it leaves.
SecurityLevelsUpdateSave(security_level, state, other_levels) ==
    IF SecurityLevelValidate(security_level, other_levels) = "Ok"
    THEN [operation |-> "Save", state |-> state]
    ELSE [operation |-> "none", state |-> [state EXCEPT !.validation_error = Some("Validation failed")]]

\* product_classes::update on edit::Message::Save: the operation it
\* returns; it is given no edit state, and the error is dropped.
ProductClassesUpdateSave(class, other_classes, available_item_groups, available_revenue_categories) ==
    IF ProductClassValidate(class, other_classes, available_item_groups, available_revenue_categories) = "Ok"
    THEN [operation |-> "Save"]
    ELSE [operation |-> "none"]

\* The values of a collection.
Values(map) == {map[k] : k \in DOMAIN map}

\* A Save of a form: last records the operation, the rule that failed and
\* the error the edit session is left with.  The form changes nothing of
\* the program by itself.
FormSave(type, id, op, rule, validation_error) ==
    /\ ~show_modal
    /\ Shows(type)
    /\ steps > 0
    /\ last' = [msg |-> "Edit.Save", type |-> type, id |-> id, op |-> op, rule |-> rule, validation_error |-> validation_error]
    /\ steps' = steps - 1
    /\ UNCHANGED <<snap, call, task, screen, error_message, vData>>

\* The Save of the security-level form on level id with a name typed in.
SecurityLevelsFormSave(id, name) ==
    LET security_level == [security_levels[id] EXCEPT !.name = name]
        other_levels == OtherSecurityLevels(id)
        result == SecurityLevelsUpdateSave(security_level, SecurityLevelEditStateNew(security_levels[id]), other_levels)
    IN FormSave("SecurityLevel", id, result.operation, SecurityLevelValidate(security_level, other_levels), result.state.validation_error)

\* The Save of the product-class form on class id with a name typed in.
ProductClassesFormSave(id, name) ==
    LET class == [product_classes[id] EXCEPT !.name = name]
        other_classes == {product_classes[k] : k \in DOMAIN product_classes \ {id}}
        result == ProductClassesUpdateSave(class, other_classes, Values(item_groups), Values(revenue_categories))
    IN FormSave("ProductClass", id, result.operation, ProductClassValidate(class, other_classes, Values(item_groups), Values(revenue_categories)), None)

InitForms == \E n \in 1..MaxId : InitWith(AppFile(n, FALSE), MaxSessionSteps)

NextForms ==
    \/ NavStep({"SecurityLevels", "ProductClasses"})
    \/ NextSecurityLevels
    \/ NextProductClasses
    \/ \E id \in DOMAIN security_levels, name \in Names : SecurityLevelsFormSave(id, name)
    \/ \E id \in DOMAIN product_classes, name \in Names : ProductClassesFormSave(id, name)

SpecForms == InitForms /\ [][NextForms]_vars

\* C34: a Save that fails validation leaves its error with the edit
\* session: the session's validation_error is set and names the rule that
\* failed.
C34_FailedSaveAttachesError ==
    (last.msg = "Edit.Save" /\ last.rule # "Ok") =>
        /\ last.op = "none"
        /\ last.validation_error = Some(last.rule)

-----------------------------------------------------------------------------
(* Committing a new draft *)

MaxDraftSteps == 5

InitDrafts == \E n \in 0..1 : InitWith(ChoiceGroupsFile(n), MaxDraftSteps)

\* Create-new, copy, per-row create and the form with its Save, on the
\* choice groups.
NextDrafts ==
    \/ NavStep({"ChoiceGroups(View)"})
    \/ \E name \in {<< >>, <<"a">>} : ChoiceGroupsListed /\ ChoiceGroupsEditUpdateName(name) /\ Step("Edit.UpdateName", "ChoiceGroup", ChoiceGroupsMsgId, "none")
    \/ \E id \in IdInputs : ChoiceGroupsListed /\ ChoiceGroupsEditUpdateId(id) /\ Step("Edit.UpdateId", "ChoiceGroup", ChoiceGroupsMsgId, "none")
    \/ ChoiceGroupsListed /\ ChoiceGroupsEditSave /\ Step("Edit.Save", "ChoiceGroup", ChoiceGroupsMsgId, SaveOperation(choice_group_edit_state, OtherChoiceGroups(ChoiceGroupsMsgId)))
    \/ Shows("ChoiceGroup") /\ ChoiceGroupsCreateNew /\ Step("CreateNew", "ChoiceGroup", ChoiceGroupsMsgId, "CreateNew")
    \/ \E id \in DOMAIN choice_groups : ChoiceGroupsListed /\ ChoiceGroupsCopyChoiceGroup(id) /\ Step("CopyChoiceGroup", "ChoiceGroup", id, "CopyChoiceGroup")
    \/ ChoiceGroupsListed /\ ChoiceGroupsCreateNewMulti /\ Step("CreateNewMulti", "ChoiceGroup", NextId(choice_groups), "CreateNewMulti")

SpecDrafts == InitDrafts /\ [][NextDrafts]_vars

\* The step is the Save of the choice-group form on a draft that create-new
\* started, and validation let it through.
SavesNewDraft == IsEditSave /\ last'.op = "Save" /\ ChoiceGroupsMsgId < 0 /\ draft_choice_group_id = Some(-1)

\* C35: the Save of a draft started by create-new never overwrites a
\* committed entity: it inserts under an ID that was no key of the
\* collection just before the Save, so that the collection grows by one and
\* every entity it held is kept as it was.
C35_NewDraftNeverOverwrites ==
    [][SavesNewDraft =>
          /\ Cardinality(DOMAIN choice_groups') = Cardinality(DOMAIN choice_groups) + 1
          /\ \A k \in DOMAIN choice_groups : k \in DOMAIN choice_groups' /\ choice_groups'[k] = choice_groups[k]]_vars

-----------------------------------------------------------------------------
(* The per-row edit states *)

MaxRecreateSteps == 4

InitRecreate == InitWith(AppFile(1, FALSE), MaxRecreateSteps)

\* Per-row create, edit and cancel of the choice groups and the item
\* groups, and the deletion of any entity.
NextRecreate ==
    \/ NavStep({"ChoiceGroups(View)", "ItemGroups"})
    \/ NextModal
    \/ ChoiceGroupsListed /\ ChoiceGroupsCreateNewMulti /\ Step("CreateNewMulti", "ChoiceGroup", NextId(choice_groups), "CreateNewMulti")
    \/ \E id \in DOMAIN choice_groups : ChoiceGroupsListed /\ ChoiceGroupsEditChoiceGroup(id) /\ Step("EditChoiceGroup", "ChoiceGroup", id, "EditChoiceGroup")
    \/ \E id \in DOMAIN choice_groups : ChoiceGroupsListed /\ ChoiceGroupsCancelEdit(id) /\ Step("CancelEdit", "ChoiceGroup", id, "CancelEdit")
    \/ ItemGroupsCreateNew /\ RowStep("CreateNew", "ItemGroup", NextId(item_groups))
    \/ \E id \in DOMAIN item_groups : ItemGroupsEditItemGroup(id) /\ RowStep("Edit", "ItemGroup", id)
    \/ \E id \in DOMAIN item_groups : ItemGroupsCancelEdit(id) /\ RowStep("CancelEdit", "ItemGroup", id)

SpecRecreate == InitRecreate /\ [][NextRecreate]_vars

\* C36: each per-type list of edit states holds at most one edit state per
\* entity ID.
C36_OneEditStatePerId ==
    \A t \in EntityTypes :
        \A i, j \in DOMAIN EditStatesOf(t) :
            EditingId(EditStatesOf(t)[i]) = EditingId(EditStatesOf(t)[j]) => i = j

-----------------------------------------------------------------------------
(* Keys and IDs *)

\* C37: every entry of every collection is stored under the key equal to
\* the id field of the entity.
C37_KeyIsId ==
    \A t \in EntityTypes : \A k \in DOMAIN CollectionOf(t) : CollectionOf(t)[k].id = k

\* A copy has put an item into the collection that the data file did not
\* hold, under its own id.
C37_Witness ==
    /\ last.msg = "Copy" /\ last.type = "Item"
    /\ \E k \in DOMAIN items \ DOMAIN snap.items : items[k].id = k

-----------------------------------------------------------------------------
(* Delete: the items the deleted ID is not in *)

MaxFrameSteps == 2

\* Data files whose item 1 has, in each list field, no list, a list of
\* IDs, or a list that is present and empty.
InitFrame == \E list \in ListRefs \cup {Some(<< >>)} : InitWith(DeleteFile(Some(1), list), MaxFrameSteps)

SpecFrame == InitFrame /\ [][NavStep(NavScreens) \/ NextModal]_vars

\* The name of the Item field that lists entities of type t.
ListFieldName(t) ==
    CASE t = "ChoiceGroup" -> "choice_groups"
      [] t = "PrinterLogical" -> "printer_logicals"
      [] t = "PriceLevel" -> "price_levels"

\* C38: a confirmed delete of a choice group, printer or price level d
\* leaves the list field of every item that does not hold d as it was (a
\* present list stays present), and every other field of every item.
C38_DeleteFrameOnItems ==
    [][\A t \in ListTypes :
          (last'.msg = "ConfirmDelete" /\ deletion_info.entity_type = t) =>
              \A i \in DOMAIN items :
                  /\ i \in DOMAIN items'
                  /\ (ListFieldOf(items[i], t) = None \/ deletion_info.entity_id \notin Elems(Unwrap(ListFieldOf(items[i], t)))
                        => ListFieldOf(items'[i], t) = ListFieldOf(items[i], t))
                  /\ \A f \in DOMAIN items[i] \ {ListFieldName(t)} : items'[i][f] = items[i][f]]_vars

-----------------------------------------------------------------------------
(* Delete of a price level: the prices of the items *)

MaxPriceSteps == 4

InitPrices == InitWith(AppFile(1, FALSE), MaxPriceSteps)

\* The prices of the item form, its Save, and the deletion of any entity.
NextPrices ==
    \/ NavStep({"Items(View)", "PriceLevels"})
    \/ NextModal
    \/ Listed("Item", selected_item_id, items) /\ ItemsStartEdit /\ Step("StartEdit", "Item", ItemsMsgId, "StartEdit")
    \/ \E price_level_id \in DOMAIN price_levels, item_price \in RateInputs : Listed("Item", selected_item_id, items) /\ ItemsUpdatePrice(price_level_id, item_price) /\ Step("UpdatePrice", "Item", ItemsMsgId, "UpdatePrice")
    \/ Listed("Item", selected_item_id, items) /\ ItemsSave /\ Step("Save", "Item", ItemsMsgId, "Save")

SpecPrices == InitPrices /\ [][NextPrices]_vars

\* The price levels the prices of an item are for.
PricedLevels(item) == IF item.item_prices = None THEN {} ELSE {Unwrap(item.item_prices)[k].price_level_id : k \in DOMAIN Unwrap(item.item_prices)}

\* C39: the per-level prices of the items never name a price level that is
\* not in the price_levels collection: a confirmed delete of price level d
\* leaves no item with a price for d.
C39_NoPriceForDeletedLevel ==
    \A i \in DOMAIN items : PricedLevels(items[i]) \subseteq DOMAIN price_levels

====
